---- MODULE Spec2Model ----
(***************************************************************************)
(* Verification model of the annuity-pricing repository.                   *)
(*                                                                         *)
(* Numbers.  The program computes in binary floating point; the model      *)
(* computes in exact integers on fixed grids:                              *)
(*   - credited returns and index returns are in basis points (1e-4);      *)
(*   - participation rates are in percent;                                 *)
(*   - money is in whole currency units;                                   *)
(*   - GLWB rates (rollup, withdrawal, fee, r, sigma) are in percent.      *)
(* Optional values (Python None) are sequences: <<>> is None, <<v>> is v.  *)
(*                                                                         *)
(* The module holds several specifications over one variable tuple, one    *)
(* per subsystem; the variables a subsystem does not use stay idle.        *)
(***************************************************************************)
EXTENDS Integers, Sequences, FiniteSets, TLC

VARIABLES
    credit,        \* payoff algebra: the last payoff evaluation
    fia_call,      \* FIAPricer.price: the last call and its outcome
    gate_call,     \* ValidationEngine.validate: the last call and its report
    trk,           \* GWB tracker driven on its own
    sims,          \* GLWBPathSimulator instances
    run,           \* the price() call in progress
    path,          \* the simulate_single_path() call in progress
    solver,        \* a fair-term solver call: fair GLWB fee, fair FIA cap
    calc,          \* behavioural and reserve calculations: lapse, CTE
    scen,          \* the scenario generator's rate paths in progress
    rila_call,     \* RILAPricer.price / calculate_greeks: the last call
    batch          \* a price_multiple() call in progress

vars ==
    <<credit, fia_call, gate_call, trk, sims, run, path, solver, calc, scen,
      rila_call, batch>>

None == <<>>
Some(v) == <<v>>
IsNone(o) == o = <<>>
Val(o) == o[1]

Min(a, b) == IF a <= b THEN a ELSE b
Max(a, b) == IF a >= b THEN a ELSE b
Abs(a) == IF a >= 0 THEN a ELSE -a

Idle == [kind |-> "idle"]

(***************************************************************************)
(* Payoff algebra                                                          *)
(***************************************************************************)

\* Index returns range over -MaxReturn .. MaxReturn percent, in 1% steps.
MaxReturn == 45
Returns == {100 * k : k \in -MaxReturn .. MaxReturn}

\* Rate parameters (basis points) and participation rates (percent).
CapRates == {0, 800, 1500}
OptCapRates == {None} \cup {Some(c) : c \in CapRates}
ProtectionRates == {1000, 2000, 2500}
SpreadRates == {0, 200, 1000}
TriggerRates == {0, 500}
ParticipationRates == {0, 80, 120}

\* FIA capped: y = min(max(x, 0), cap).
cap_crediting(index_return, cap) == Min(Max(index_return, 0), cap)

\* FIA participation(p, cap?): y = min(max(p*x, 0), cap ?? +inf); p in percent.
participation_crediting(index_return, participation, cap) ==
    LET adjusted == (index_return * participation) \div 100
        floored == Max(adjusted, 0)
    IN IF IsNone(cap) THEN floored ELSE Min(floored, Val(cap))

spread_crediting_unfloored(index_return, spread, cap) ==
    IF IsNone(cap) THEN index_return - spread
    ELSE Min(index_return - spread, Val(cap))

\* FIA spread(s, cap?): y = min(max(x - s, 0), cap ?? +inf).
spread_crediting(index_return, spread, cap) ==
    LET floored == Max(index_return - spread, 0)
    IN IF IsNone(cap) THEN floored ELSE Min(floored, Val(cap))

\* FIA trigger(t): y = t if x > 0 else 0.
trigger_crediting(index_return, trigger_rate) ==
    IF index_return > 0 THEN trigger_rate ELSE 0

payoff_no_buffer(is_buffer, buffer_rate, cap_rate, index_return) ==
    IF index_return >= 0
    THEN IF ~IsNone(cap_rate) THEN Min(index_return, Val(cap_rate)) ELSE index_return
    ELSE IF is_buffer THEN index_return ELSE Max(index_return, -buffer_rate)

payoff_floor_as_buffer(is_buffer, buffer_rate, cap_rate, index_return) ==
    IF index_return >= 0
    THEN IF ~IsNone(cap_rate) THEN Min(index_return, Val(cap_rate)) ELSE index_return
    ELSE IF index_return > -buffer_rate THEN 0 ELSE index_return + buffer_rate

\* RILAPricer._calculate_breakeven.payoff_minus_principal: the credited
\* return of a buffer (is_buffer) or floor product at index_return.
payoff_minus_principal(is_buffer, buffer_rate, cap_rate, index_return) ==
    IF is_buffer
    THEN IF index_return >= 0
         THEN IF ~IsNone(cap_rate)
              THEN Min(index_return, Val(cap_rate))
              ELSE index_return
         ELSE IF index_return > -buffer_rate
              THEN 0
              ELSE index_return + buffer_rate
    ELSE LET floor_rate == -buffer_rate
         IN IF index_return >= 0
            THEN IF ~IsNone(cap_rate)
                 THEN Min(index_return, Val(cap_rate))
                 ELSE index_return
            ELSE Max(index_return, floor_rate)

InitPayoff ==
    /\ credit = Idle
    /\ fia_call = Idle
    /\ gate_call = Idle
    /\ trk = Idle
    /\ sims = Idle
    /\ run = Idle
    /\ path = Idle
    /\ solver = Idle
    /\ calc = Idle
    /\ scen = Idle
    /\ rila_call = Idle
    /\ batch = Idle

OthersIdlePayoff ==
    UNCHANGED <<fia_call, gate_call, trk, sims, run, path, solver, calc, scen,
                   rila_call, batch>>

CapCredit ==
    \E x \in Returns, c \in CapRates :
        /\ credit = Idle
        /\ credit' = [kind |-> "fia", method |-> "cap", x |-> x,
                      rate |-> c, cap |-> Some(c),
                      y |-> cap_crediting(x, c)]
        /\ OthersIdlePayoff

ParticipationCredit ==
    \E x \in Returns, p \in ParticipationRates :
        /\ credit = Idle
        /\ credit' = [kind |-> "fia", method |-> "participation", x |-> x,
                      rate |-> p, cap |-> None,
                      y |-> participation_crediting(x, p, None)]
        /\ OthersIdlePayoff

CapParticipationCredit ==
    \E x \in Returns, p \in ParticipationRates, c \in CapRates :
        /\ credit = Idle
        /\ credit' = [kind |-> "fia", method |-> "cap_participation", x |-> x,
                      rate |-> p, cap |-> Some(c),
                      y |-> participation_crediting(x, p, Some(c))]
        /\ OthersIdlePayoff

SpreadCredit ==
    \E x \in Returns, s \in SpreadRates, c \in OptCapRates :
        /\ credit = Idle
        /\ credit' = [kind |-> "fia", method |-> "spread", x |-> x,
                      rate |-> s, cap |-> c,
                      y |-> spread_crediting(x, s, c)]
        /\ OthersIdlePayoff

TriggerCredit ==
    \E x \in Returns, t \in TriggerRates :
        /\ credit = Idle
        /\ credit' = [kind |-> "fia", method |-> "trigger", x |-> x,
                      rate |-> t, cap |-> None,
                      y |-> trigger_crediting(x, t)]
        /\ OthersIdlePayoff

\* A buffer product and a floor product with the same protection level and
\* cap, evaluated at the same index return.
RilaCredit ==
    \E x \in Returns, b \in ProtectionRates, c \in OptCapRates :
        /\ credit = Idle
        /\ credit' = [kind |-> "rila", x |-> x, rate |-> b, cap |-> c,
                      buffer |-> payoff_minus_principal(TRUE, b, c, x),
                      floor |-> payoff_minus_principal(FALSE, b, c, x)]
        /\ OthersIdlePayoff

NextPayoff ==
    \/ CapCredit
    \/ ParticipationCredit
    \/ CapParticipationCredit
    \/ SpreadCredit
    \/ TriggerCredit
    \/ RilaCredit

SpecPayoff == InitPayoff /\ [][NextPayoff]_vars

\* C2: every FIA crediting payoff is >= 0, and exactly 0 for every x <= 0.
FIAFloorEnforced ==
    credit.kind = "fia" =>
        /\ credit.y >= 0
        /\ credit.x <= 0 => credit.y = 0

FIAFloorWitness ==
    /\ credit.kind = "fia"
    /\ credit.method = "spread"
    /\ credit.x < 0
    /\ credit.y = 0

\* C3 as stated: with b = f and the same cap, buffer and floor payoffs differ
\* for every x in (-b, 0) and for every x < -b.
BufferFloorDifferAsStated ==
    (credit.kind = "rila" /\ credit.x < 0 /\ credit.x # -credit.rate) =>
        credit.buffer # credit.floor

\* C3 amended: they differ for every x in (-b, 0) and for every x < -b
\* other than x = -2b, where both pay -b.
BufferFloorDiffer ==
    /\ (credit.kind = "rila" /\ credit.x < 0 /\ credit.x # -credit.rate
            /\ credit.x # -2 * credit.rate) =>
           credit.buffer # credit.floor
    /\ (credit.kind = "rila" /\ credit.x = -2 * credit.rate) =>
           (credit.buffer = -credit.rate /\ credit.floor = -credit.rate)

BufferFloorDifferWitness ==
    /\ credit.kind = "rila"
    /\ credit.x < -credit.rate
    /\ credit.x # -2 * credit.rate
    /\ credit.buffer < credit.floor

\* C4: the buffer payoff equals min(x, cap) if x >= 0; 0 if -b <= x < 0
\* (x = -b included); x + b, strictly negative, if x < -b.
BufferMatchesReference ==
    credit.kind = "rila" =>
        /\ credit.x >= 0 =>
              credit.buffer = IF IsNone(credit.cap) THEN credit.x
                              ELSE Min(credit.x, Val(credit.cap))
        /\ (credit.x < 0 /\ credit.x >= -credit.rate) => credit.buffer = 0
        /\ credit.x < -credit.rate =>
              (credit.buffer = credit.x + credit.rate /\ credit.buffer < 0)

BufferBoundaryWitness ==
    /\ credit.kind = "rila"
    /\ credit.x = -credit.rate
    /\ credit.buffer = 0

(***************************************************************************)
(* Validation gates                                                        *)
(*                                                                         *)
(* A pricing result is a record: kind ("base" | "fia" | "rila") stands for *)
(* the result class, money fields are whole units, expected_credit and     *)
(* max_loss are in basis points, duration in years (optional).  The        *)
(* context carries the optional keyword arguments premium, cap_rate and    *)
(* buffer_rate (rates in basis points).                                    *)
(***************************************************************************)

BpPerUnit == 10000
DefaultPremium == 100
MaxPvMultiple == 10
MaxDuration == 30
CreditTolerance == 10
CapSlack == 200
MaxLossTolerance == 100

GateResult(status, gate_name, message) ==
    [status |-> status, gate_name |-> gate_name, message |-> message]

ContextPremium(context) ==
    IF IsNone(context.premium) THEN DefaultPremium ELSE Val(context.premium)

PresentValueBoundsGate(result, context) ==
    LET premium == ContextPremium(context)
        max_pv == premium * MaxPvMultiple
    IN IF result.present_value < 0
       THEN GateResult("HALT", "present_value_bounds", "below minimum")
       ELSE IF result.present_value > max_pv
       THEN GateResult("HALT", "present_value_bounds", "exceeds multiple of premium")
       ELSE GateResult("PASS", "present_value_bounds", "within bounds")

DurationBoundsGate(result, context) ==
    IF IsNone(result.duration)
    THEN GateResult("PASS", "duration_bounds", "not calculated")
    ELSE IF Val(result.duration) < 0
    THEN GateResult("HALT", "duration_bounds", "negative")
    ELSE IF Val(result.duration) > MaxDuration
    THEN GateResult("HALT", "duration_bounds", "exceeds maximum")
    ELSE GateResult("PASS", "duration_bounds", "within bounds")

\* ratio = embedded_option_value / option_budget > 1 + tolerance, with the
\* default tolerance 0.50, is 2 * value > 3 * budget for a positive budget.
FIAOptionBudgetGate(result, context) ==
    IF result.kind # "fia"
    THEN GateResult("PASS", "fia_option_budget", "not a FIA result")
    ELSE IF result.option_budget <= 0
    THEN GateResult("WARN", "fia_option_budget", "budget zero or negative")
    ELSE IF 2 * result.embedded_option_value > 3 * result.option_budget
    THEN GateResult("WARN", "fia_option_budget", "exceeds budget")
    ELSE GateResult("PASS", "fia_option_budget", "within budget")

FIAExpectedCreditGate(result, context) ==
    IF result.kind # "fia"
    THEN GateResult("PASS", "fia_expected_credit", "not a FIA result")
    ELSE IF result.expected_credit < -CreditTolerance
    THEN GateResult("HALT", "fia_expected_credit", "negative")
    ELSE IF /\ ~IsNone(context.cap_rate)
            /\ result.expected_credit > Val(context.cap_rate) + CapSlack
    THEN GateResult("HALT", "fia_expected_credit", "exceeds cap rate")
    ELSE GateResult("PASS", "fia_expected_credit", "within bounds")

RILAMaxLossGate(result, context) ==
    IF result.kind # "rila"
    THEN GateResult("PASS", "rila_max_loss", "not a RILA result")
    ELSE IF result.max_loss < 0
    THEN GateResult("HALT", "rila_max_loss", "negative")
    ELSE IF result.max_loss > BpPerUnit
    THEN GateResult("HALT", "rila_max_loss", "exceeds 100%")
    ELSE IF /\ ~IsNone(context.buffer_rate)
            /\ result.protection_type = "buffer"
            /\ Abs(result.max_loss - (BpPerUnit - Val(context.buffer_rate)))
                   > MaxLossTolerance
    THEN GateResult("WARN", "rila_max_loss", "buffer max loss mismatch")
    ELSE IF /\ ~IsNone(context.buffer_rate)
            /\ result.protection_type = "floor"
            /\ Abs(result.max_loss - Val(context.buffer_rate)) > MaxLossTolerance
    THEN GateResult("WARN", "rila_max_loss", "floor max loss mismatch")
    ELSE GateResult("PASS", "rila_max_loss", "valid")

\* protection_value > premium * max_protection_pct with the default 0.50.
RILAProtectionValueGate(result, context) ==
    IF result.kind # "rila"
    THEN GateResult("PASS", "rila_protection_value", "not a RILA result")
    ELSE IF result.protection_value < 0
    THEN GateResult("HALT", "rila_protection_value", "negative")
    ELSE IF 2 * result.protection_value > ContextPremium(context)
    THEN GateResult("WARN", "rila_protection_value", "exceeds share of premium")
    ELSE GateResult("PASS", "rila_protection_value", "valid")

\* max_loss_value = premium * max_loss if max_loss else premium: a max_loss
\* of 0 is falsy and selects the premium.  Both sides are scaled by
\* BpPerUnit to compare in integers.
ArbitrageBoundsGate(result, context) ==
    LET premium == ContextPremium(context)
        max_loss_value_bp == IF result.max_loss # 0
                             THEN premium * result.max_loss
                             ELSE premium * BpPerUnit
    IN IF result.kind = "fia" /\ result.embedded_option_value > premium
       THEN GateResult("HALT", "arbitrage_bounds", "option value exceeds premium")
       ELSE IF /\ result.kind = "rila"
               /\ result.protection_value * BpPerUnit > max_loss_value_bp
       THEN GateResult("HALT", "arbitrage_bounds", "protection exceeds max loss")
       ELSE GateResult("PASS", "arbitrage_bounds", "no violation")

\* ValidationEngine._default_gates, applied in order by validate().
validate(result, context) ==
    << PresentValueBoundsGate(result, context),
       DurationBoundsGate(result, context),
       FIAOptionBudgetGate(result, context),
       FIAExpectedCreditGate(result, context),
       RILAMaxLossGate(result, context),
       RILAProtectionValueGate(result, context),
       ArbitrageBoundsGate(result, context) >>

overall_status_warn_first(results) ==
    IF \E i \in 1 .. Len(results) : results[i].status = "WARN"
    THEN "WARN"
    ELSE IF \E i \in 1 .. Len(results) : results[i].status = "HALT"
    THEN "HALT"
    ELSE "PASS"

\* ValidationReport.overall_status
overall_status(results) ==
    IF \E i \in 1 .. Len(results) : results[i].status = "HALT"
    THEN "HALT"
    ELSE IF \E i \in 1 .. Len(results) : results[i].status = "WARN"
    THEN "WARN"
    ELSE "PASS"

\* ValidationReport.passed
passed(results) == overall_status(results) # "HALT"

IsHalt(gate_result) == gate_result.status = "HALT"

\* ValidationReport.halted_gates
halted_gates(results) == SelectSeq(results, IsHalt)

validate_and_raise_on_warn(result, context) ==
    LET report == validate(result, context)
    IN IF overall_status(report) # "PASS"
       THEN [raised |-> TRUE, returned |-> None,
             messages |-> [k \in 1 .. Len(halted_gates(report)) |->
                              halted_gates(report)[k].message]]
       ELSE [raised |-> FALSE, returned |-> Some(result), messages |-> <<>>]

\* ValidationEngine.validate_and_raise: a ValueError carrying the message of
\* every halted gate when the report did not pass, else the result given.
validate_and_raise(result, context) ==
    LET report == validate(result, context)
    IN IF ~passed(report)
       THEN [raised |-> TRUE, returned |-> None,
             messages |-> [k \in 1 .. Len(halted_gates(report)) |->
                              halted_gates(report)[k].message]]
       ELSE [raised |-> FALSE, returned |-> Some(result), messages |-> <<>>]

\* ensure_valid: validate_and_raise on a new engine with the default gates.
ensure_valid(result, context) == validate_and_raise(result, context)

\* Inputs of the validator.
PresentValues == {-1, 100, 1001}
Durations == {None, Some(-1), Some(1), Some(31)}
OptionValues == {2, 5, 101}
OptionBudgets == {0, 3}
ExpectedCredits == {-11, 500, 1100}
MaxLosses == {-1, 0, 1000, 9000, 10001}
ProtectionValues == {-1, 5, 60}
ContextPremiums == {None, Some(100)}
ContextCapRates == {None, Some(800)}
ContextBufferRates == {None, Some(1000)}

BaseResults ==
    [kind : {"base"}, present_value : PresentValues, duration : Durations,
     embedded_option_value : {0}, option_budget : {0}, expected_credit : {0},
     max_loss : {0}, protection_value : {0}, protection_type : {""}]

FIAResults ==
    [kind : {"fia"}, present_value : PresentValues, duration : Durations,
     embedded_option_value : OptionValues, option_budget : OptionBudgets,
     expected_credit : ExpectedCredits,
     max_loss : {0}, protection_value : {0}, protection_type : {""}]

RILAResults ==
    [kind : {"rila"}, present_value : PresentValues, duration : Durations,
     embedded_option_value : {0}, option_budget : {0}, expected_credit : {0},
     max_loss : MaxLosses, protection_value : ProtectionValues,
     protection_type : {"buffer", "floor"}]

InitGates ==
    /\ credit = Idle
    /\ fia_call = Idle
    /\ gate_call = Idle
    /\ trk = Idle
    /\ sims = Idle
    /\ run = Idle
    /\ path = Idle
    /\ solver = Idle
    /\ calc = Idle
    /\ scen = Idle
    /\ rila_call = Idle
    /\ batch = Idle

OthersIdleGates ==
    UNCHANGED <<credit, fia_call, trk, sims, run, path, solver, calc, scen,
                   rila_call, batch>>

Validate(result, context) ==
    /\ gate_call = Idle
    /\ gate_call' = [kind |-> "validate", result |-> result, context |-> context,
                     results |-> validate(result, context),
                     overall_status |-> overall_status(validate(result, context)),
                     passed |-> passed(validate(result, context)),
                     outcome |-> [raised |-> FALSE, returned |-> None,
                                  messages |-> <<>>]]
    /\ OthersIdleGates

ValidateBase ==
    \E result \in BaseResults, premium \in ContextPremiums :
        Validate(result, [premium |-> premium, cap_rate |-> None,
                          buffer_rate |-> None])

ValidateFIA ==
    \E result \in FIAResults, premium \in ContextPremiums,
       cap_rate \in ContextCapRates :
        Validate(result, [premium |-> premium, cap_rate |-> cap_rate,
                          buffer_rate |-> None])

ValidateRILA ==
    \E result \in RILAResults, premium \in ContextPremiums,
       buffer_rate \in ContextBufferRates :
        Validate(result, [premium |-> premium, cap_rate |-> None,
                          buffer_rate |-> buffer_rate])

GateContexts ==
    [premium : ContextPremiums, cap_rate : ContextCapRates,
     buffer_rate : ContextBufferRates]

\* engine.validate_and_raise(result, **context)
ValidateAndRaise ==
    /\ gate_call = Idle
    /\ \E result \in BaseResults \cup FIAResults \cup RILAResults,
          context \in GateContexts :
         gate_call' = [kind |-> "validate_and_raise", result |-> result,
                       context |-> context,
                       results |-> validate(result, context),
                       overall_status |-> overall_status(validate(result, context)),
                       passed |-> passed(validate(result, context)),
                       outcome |-> validate_and_raise(result, context)]
    /\ OthersIdleGates

\* ensure_valid(result, **context)
EnsureValid ==
    /\ gate_call = Idle
    /\ \E result \in BaseResults \cup FIAResults \cup RILAResults,
          context \in GateContexts :
         gate_call' = [kind |-> "ensure_valid", result |-> result,
                       context |-> context,
                       results |-> validate(result, context),
                       overall_status |-> overall_status(validate(result, context)),
                       passed |-> passed(validate(result, context)),
                       outcome |-> ensure_valid(result, context)]
    /\ OthersIdleGates

NextGates ==
    \/ ValidateBase
    \/ ValidateFIA
    \/ ValidateRILA
    \/ ValidateAndRaise
    \/ EnsureValid

SpecGates == InitGates /\ [][NextGates]_vars

\* The HALT conditions of the standard gate set, as the gate table states them.
HaltCondition(result, context) ==
    LET premium == ContextPremium(context)
    IN \/ result.present_value < 0
       \/ result.present_value > MaxPvMultiple * premium
       \/ ~IsNone(result.duration) /\ Val(result.duration) < 0
       \/ ~IsNone(result.duration) /\ Val(result.duration) > MaxDuration
       \/ /\ result.kind = "fia"
          /\ \/ /\ result.option_budget > 0
                /\ 2 * result.embedded_option_value > 3 * result.option_budget
             \/ result.expected_credit < -CreditTolerance
             \/ /\ ~IsNone(context.cap_rate)
                /\ result.expected_credit > Val(context.cap_rate) + CapSlack
             \/ result.embedded_option_value > premium
       \/ /\ result.kind = "rila"
          /\ \/ result.max_loss < 0
             \/ result.max_loss > BpPerUnit
             \/ /\ ~IsNone(context.buffer_rate)
                /\ result.protection_type = "buffer"
                /\ Abs(result.max_loss - (BpPerUnit - Val(context.buffer_rate)))
                       > MaxLossTolerance
             \/ /\ ~IsNone(context.buffer_rate)
                /\ result.protection_type = "floor"
                /\ Abs(result.max_loss - Val(context.buffer_rate))
                       > MaxLossTolerance
             \/ result.protection_value < 0
             \/ result.protection_value * BpPerUnit > premium * result.max_loss

\* C1: whenever a HALT condition of the standard gate set holds, the report
\* of validate() with the default gates has overall status HALT.
ValidatorSound ==
    gate_call.kind = "validate" =>
        (HaltCondition(gate_call.result, gate_call.context) =>
            overall_status(gate_call.results) = "HALT")

DefaultGateNames ==
    << "present_value_bounds", "duration_bounds", "fia_option_budget",
       "fia_expected_credit", "rila_max_loss", "rila_protection_value",
       "arbitrage_bounds" >>

HasStatus(results, status) ==
    \E k \in 1 .. Len(results) : results[k].status = status

\* C19: the overall status of a report is the worst status over its gate
\* results (HALT over WARN over PASS); the report counts as passed exactly
\* when no gate HALTed; validate() yields one result per configured gate, in
\* gate order.
WorstStatusAggregated ==
    gate_call.kind # "idle" =>
        /\ gate_call.overall_status =
               IF HasStatus(gate_call.results, "HALT") THEN "HALT"
               ELSE IF HasStatus(gate_call.results, "WARN") THEN "WARN"
               ELSE "PASS"
        /\ gate_call.passed <=> ~HasStatus(gate_call.results, "HALT")
        /\ Len(gate_call.results) = Len(DefaultGateNames)
        /\ \A k \in 1 .. Len(DefaultGateNames) :
               gate_call.results[k].gate_name = DefaultGateNames[k]

WorstStatusWitness ==
    /\ gate_call.kind = "validate"
    /\ HasStatus(gate_call.results, "WARN")
    /\ HasStatus(gate_call.results, "HALT")
    /\ gate_call.overall_status = "HALT"
    /\ ~gate_call.passed

\* C20: validate() never raises because of a HALT; validate_and_raise and
\* ensure_valid raise exactly when at least one gate HALTs, naming every
\* halted gate's message, and otherwise return the very result given.
RaisesOnlyWhenAsked ==
    /\ gate_call.kind = "validate" => ~gate_call.outcome.raised
    /\ gate_call.kind \in {"validate_and_raise", "ensure_valid"} =>
           /\ gate_call.outcome.raised <=> HasStatus(gate_call.results, "HALT")
           /\ gate_call.outcome.raised =>
                  /\ gate_call.outcome.returned = None
                  /\ \A k \in 1 .. Len(gate_call.results) :
                         gate_call.results[k].status = "HALT" =>
                             \E j \in 1 .. Len(gate_call.outcome.messages) :
                                 gate_call.outcome.messages[j]
                                     = gate_call.results[k].message
           /\ ~gate_call.outcome.raised =>
                  gate_call.outcome.returned = Some(gate_call.result)

RaisesWitness ==
    /\ gate_call.kind = "ensure_valid"
    /\ gate_call.outcome.raised
    /\ Len(gate_call.outcome.messages) >= 2

WarnReturnsWitness ==
    /\ gate_call.kind = "validate_and_raise"
    /\ gate_call.overall_status = "WARN"
    /\ gate_call.outcome.returned = Some(gate_call.result)

\* The result of the named default gate within the report of a call.
GateResultOf(gate_name) ==
    LET k == CHOOSE j \in 1 .. Len(DefaultGateNames) :
                 DefaultGateNames[j] = gate_name
    IN gate_call.results[k]

\* C21: an FIA result with a positive option budget whose embedded option
\* value exceeds 1.5 times the budget gets HALT from the FIA option budget
\* gate.
OptionBudgetExcessHalts ==
    ( /\ gate_call.kind # "idle"
      /\ gate_call.result.kind = "fia"
      /\ gate_call.result.option_budget > 0
      /\ 2 * gate_call.result.embedded_option_value
             > 3 * gate_call.result.option_budget )
        => GateResultOf("fia_option_budget").status = "HALT"

\* max_loss is what the protection type and the protection rate imply:
\* 1 - b for a buffer, f for a floor.
MaxLossConsistent(result, context) ==
    IF result.protection_type = "buffer"
    THEN result.max_loss = BpPerUnit - Val(context.buffer_rate)
    ELSE result.max_loss = Val(context.buffer_rate)

\* C22: for a RILA result checked with its protection rate, the max-loss
\* gate HALTs when max_loss is below 0, above 1 or inconsistent with the
\* protection type, and passes only when max_loss is in [0,1] and
\* consistent.
MaxLossGateHalts ==
    ( /\ gate_call.kind # "idle"
      /\ gate_call.result.kind = "rila"
      /\ ~IsNone(gate_call.context.buffer_rate) )
        => LET sound == /\ gate_call.result.max_loss >= 0
                        /\ gate_call.result.max_loss <= BpPerUnit
                        /\ MaxLossConsistent(gate_call.result, gate_call.context)
           IN /\ ~sound => GateResultOf("rila_max_loss").status = "HALT"
              /\ GateResultOf("rila_max_loss").status = "PASS" => sound

\* C23: the arbitrage gate HALTs for an FIA result whose embedded option
\* value exceeds the premium and for a RILA result whose protection value
\* exceeds premium * max_loss, for every max_loss in [0,1], 0 included;
\* otherwise it passes.
ArbitrageGateHalts ==
    ( /\ gate_call.kind # "idle"
      /\ gate_call.result.kind = "rila" =>
             /\ gate_call.result.max_loss >= 0
             /\ gate_call.result.max_loss <= BpPerUnit )
        => LET premium == ContextPremium(gate_call.context)
               arbitrage ==
                   \/ /\ gate_call.result.kind = "fia"
                      /\ gate_call.result.embedded_option_value > premium
                   \/ /\ gate_call.result.kind = "rila"
                      /\ gate_call.result.protection_value * BpPerUnit
                             > premium * gate_call.result.max_loss
           IN GateResultOf("arbitrage_bounds").status
                  = IF arbitrage THEN "HALT" ELSE "PASS"

(***************************************************************************)
(* FIAPricer.price                                                         *)
(*                                                                         *)
(* A product is a record of its class and its four optional crediting      *)
(* fields (basis points).  The Black-Scholes and Monte Carlo figures of a  *)
(* result come from modules outside this model; the result keeps the       *)
(* crediting method, its parameters and the option budget.                 *)
(***************************************************************************)

OptionBudgetPct == 3

\* Python's dict of method parameters: absent keys are None.
NoParams ==
    [cap_rate |-> None, participation_rate |-> None, spread_rate |-> None,
     trigger_rate |-> None]

determine_defaulting_to_trigger(product) ==
    IF ~IsNone(product.cap_rate)
    THEN [raised |-> FALSE, method |-> "cap",
          params |-> [NoParams EXCEPT !.cap_rate = product.cap_rate]]
    ELSE IF ~IsNone(product.participation_rate)
    THEN [raised |-> FALSE, method |-> "participation",
          params |-> [NoParams EXCEPT
                         !.participation_rate = product.participation_rate]]
    ELSE IF ~IsNone(product.spread_rate)
    THEN [raised |-> FALSE, method |-> "spread",
          params |-> [NoParams EXCEPT !.spread_rate = product.spread_rate]]
    ELSE [raised |-> FALSE, method |-> "trigger",
          params |-> [NoParams EXCEPT
                         !.trigger_rate = product.performance_triggered_rate]]

\* FIAPricer._determine_crediting_method: (method, params), or raised.
_determine_crediting_method(product) ==
    IF ~IsNone(product.cap_rate)
    THEN [raised |-> FALSE, method |-> "cap",
          params |-> [NoParams EXCEPT !.cap_rate = product.cap_rate]]
    ELSE IF ~IsNone(product.participation_rate)
    THEN [raised |-> FALSE, method |-> "participation",
          params |-> [NoParams EXCEPT
                         !.participation_rate = product.participation_rate,
                         !.cap_rate = product.cap_rate]]
    ELSE IF ~IsNone(product.spread_rate)
    THEN [raised |-> FALSE, method |-> "spread",
          params |-> [NoParams EXCEPT
                         !.spread_rate = product.spread_rate,
                         !.cap_rate = product.cap_rate]]
    ELSE IF ~IsNone(product.performance_triggered_rate)
    THEN [raised |-> FALSE, method |-> "trigger",
          params |-> [NoParams EXCEPT
                         !.trigger_rate = product.performance_triggered_rate]]
    ELSE [raised |-> TRUE, method |-> "", params |-> NoParams]

\* FIAPricer.price: an error (no result), or the result.
fia_price(product, premium) ==
    IF product.class # "FIAProduct"
    THEN [status |-> "error", exception |-> "ValueError",
          error |-> "Expected FIAProduct", result |-> None]
    ELSE LET chosen == _determine_crediting_method(product)
         IN IF chosen.raised
            THEN [status |-> "error", exception |-> "ValueError",
                  error |-> "has no crediting method", result |-> None]
            ELSE IF premium = 0
            THEN \* _solve_fair_cap: budget_pct = option_budget / premium
                 [status |-> "error", exception |-> "ZeroDivisionError",
                  error |-> "float division by zero", result |-> None]
            ELSE [status |-> "ok", exception |-> "", error |-> "",
                  result |-> Some([method |-> chosen.method,
                                   params |-> chosen.params,
                                   premium |-> premium,
                                   option_budget |->
                                       (premium * OptionBudgetPct) \div 100])]

ProductRates == {None, Some(0), Some(800)}
FIAProducts ==
    [class : {"FIAProduct"}, cap_rate : ProductRates,
     participation_rate : ProductRates, spread_rate : ProductRates,
     performance_triggered_rate : ProductRates]
OtherProducts ==
    [class : {"MYGAProduct"}, cap_rate : {None}, participation_rate : {None},
     spread_rate : {None}, performance_triggered_rate : {None}]
FIAPremiums == {100, 200}

InitFIA ==
    /\ credit = Idle
    /\ fia_call = Idle
    /\ gate_call = Idle
    /\ trk = Idle
    /\ sims = Idle
    /\ run = Idle
    /\ path = Idle
    /\ solver = Idle
    /\ calc = Idle
    /\ scen = Idle
    /\ rila_call = Idle
    /\ batch = Idle

OthersIdleFIA ==
    UNCHANGED <<credit, gate_call, trk, sims, run, path, solver, calc, scen,
                   rila_call, batch>>

PriceCall(product, premium) ==
    /\ fia_call = Idle
    /\ fia_call' = [kind |-> "price", product |-> product, premium |-> premium,
                    outcome |-> fia_price(product, premium)]
    /\ OthersIdleFIA

PriceFIA == \E product \in FIAProducts, premium \in FIAPremiums :
                PriceCall(product, premium)

PriceWrongProduct == \E product \in OtherProducts, premium \in FIAPremiums :
                         PriceCall(product, premium)

NextFIA ==
    \/ PriceFIA
    \/ PriceWrongProduct

SpecFIA == InitFIA /\ [][NextFIA]_vars

\* C5: price() uses the first crediting field present in the order
\* cap > participation > spread > trigger, and with none of the four
\* present it fails with an error and returns no result.
CreditingMethodPriority ==
    (fia_call.kind = "price" /\ fia_call.product.class = "FIAProduct") =>
        LET p == fia_call.product
            out == fia_call.outcome
        IN IF /\ IsNone(p.cap_rate)
              /\ IsNone(p.participation_rate)
              /\ IsNone(p.spread_rate)
              /\ IsNone(p.performance_triggered_rate)
           THEN out.status = "error" /\ IsNone(out.result)
           ELSE /\ out.status = "ok"
                /\ ~IsNone(out.result)
                /\ Val(out.result).method =
                      IF ~IsNone(p.cap_rate) THEN "cap"
                      ELSE IF ~IsNone(p.participation_rate) THEN "participation"
                      ELSE IF ~IsNone(p.spread_rate) THEN "spread"
                      ELSE "trigger"

NoCreditingMethodWitness ==
    /\ fia_call.kind = "price"
    /\ fia_call.product.class = "FIAProduct"
    /\ IsNone(fia_call.product.cap_rate)
    /\ IsNone(fia_call.product.participation_rate)
    /\ IsNone(fia_call.product.spread_rate)
    /\ IsNone(fia_call.product.performance_triggered_rate)
    /\ fia_call.outcome.status = "error"

(***************************************************************************)
(* GWB tracker                                                             *)
(*                                                                         *)
(* The tracker's step function, in the normative order: fee, return,       *)
(* rollup, ratchet, withdrawal, advance.  Rates and returns are in         *)
(* percent, money in whole units; a product with a rate rounds down to     *)
(* the money grid.                                                         *)
(***************************************************************************)

Pct(amount, rate) == (amount * rate) \div 100

initial_state(premium) ==
    [av |-> premium, gwb |-> premium, years_in_force |-> 0,
     total_withdrawn |-> 0, in_rollup_period |-> TRUE]

\* Max-allowed withdrawal each year = GWB * withdrawalRate, regardless of AV.
calculate_max_withdrawal(config, state) == Pct(state.gwb, config.withdrawal_rate)

RatchetDue(config, state) ==
    /\ config.ratchet_enabled
    /\ state.years_in_force % config.ratchet_frequency = 0

RollupDue(config, state) ==
    /\ config.rollup_type # "none"
    /\ state.in_rollup_period
    /\ state.years_in_force < config.rollup_cap_years

step_ratchet_to_av(config, premium, state, av_return, withdrawal) ==
    LET fee_basis == IF config.fee_basis = "AV" THEN state.av ELSE state.gwb
        fee == Pct(fee_basis, config.fee_rate)
        av_ret == Pct(Max(state.av - fee, 0), 100 + av_return)
        gwb_roll == IF ~RollupDue(config, state)
                    THEN state.gwb
                    ELSE IF config.rollup_type = "compound"
                    THEN Pct(state.gwb, 100 + config.rollup_rate)
                    ELSE state.gwb + Pct(premium, config.rollup_rate)
        taken == Min(withdrawal, Max(av_ret, 0))
    IN [new_state |-> [av |-> Max(av_ret - withdrawal, 0),
                       gwb |-> IF RatchetDue(config, state)
                               THEN av_ret ELSE gwb_roll,
                       years_in_force |-> state.years_in_force + 1,
                       total_withdrawn |-> state.total_withdrawn + taken,
                       in_rollup_period |-> state.in_rollup_period
                                               /\ withdrawal = 0],
        withdrawal_taken |-> taken,
        fees_charged |-> fee,
        was_ratcheted |-> RatchetDue(config, state)]

\* GWBTracker.step with dt = 1.
step(config, premium, state, av_return, withdrawal) ==
    LET fee_basis == IF config.fee_basis = "AV" THEN state.av ELSE state.gwb
        fee == Pct(fee_basis, config.fee_rate)
        av_fee == Max(state.av - fee, 0)
        av_ret == Pct(av_fee, 100 + av_return)
        gwb_roll == IF ~RollupDue(config, state)
                    THEN state.gwb
                    ELSE IF config.rollup_type = "compound"
                    THEN Pct(state.gwb, 100 + config.rollup_rate)
                    ELSE state.gwb + Pct(premium, config.rollup_rate)
        ratcheted == RatchetDue(config, state) /\ av_ret > gwb_roll
        gwb_new == IF ratcheted THEN av_ret ELSE gwb_roll
        taken == Min(withdrawal, Max(av_ret, 0))
        av_new == Max(av_ret - withdrawal, 0)
    IN [new_state |-> [av |-> av_new, gwb |-> gwb_new,
                       years_in_force |-> state.years_in_force + 1,
                       total_withdrawn |-> state.total_withdrawn + taken,
                       in_rollup_period |-> state.in_rollup_period
                                               /\ withdrawal = 0],
        withdrawal_taken |-> taken,
        fees_charged |-> fee,
        was_ratcheted |-> ratcheted]

\* Tracker steps taken in a run of the tracker on its own.
MaxTrackerYears == 3
TrackerPremium == 1000

TrackerConfigs ==
    [rollup_type : {"simple", "compound", "none"}, rollup_rate : {5},
     rollup_cap_years : {1, 10}, ratchet_enabled : BOOLEAN,
     ratchet_frequency : {1, 2}, withdrawal_rate : {5, 60},
     fee_rate : {1}, fee_basis : {"AV", "GWB"}]
TrackerReturns == {-50, 0, 20}

InitTracker ==
    /\ credit = Idle
    /\ fia_call = Idle
    /\ gate_call = Idle
    /\ \E config \in TrackerConfigs :
           trk = [kind |-> "tracker", config |-> config,
                  premium |-> TrackerPremium,
                  state |-> initial_state(TrackerPremium),
                  withdrawal |-> 0, was_ratcheted |-> FALSE]
    /\ sims = Idle
    /\ run = Idle
    /\ path = Idle
    /\ solver = Idle
    /\ calc = Idle
    /\ scen = Idle
    /\ rila_call = Idle
    /\ batch = Idle

TrackerStep(av_return, withdrawal) ==
    /\ trk.state.years_in_force < MaxTrackerYears
    /\ LET result == step(trk.config, trk.premium, trk.state, av_return, withdrawal)
       IN trk' = [trk EXCEPT !.state = result.new_state,
                             !.withdrawal = withdrawal,
                             !.was_ratcheted = result.was_ratcheted]
    /\ UNCHANGED <<credit, fia_call, gate_call, sims, run, path, solver, calc,
                   scen,
                   rila_call, batch>>

StepNoWithdrawal == \E av_return \in TrackerReturns : TrackerStep(av_return, 0)

StepMaxWithdrawal ==
    \E av_return \in TrackerReturns :
        TrackerStep(av_return, calculate_max_withdrawal(trk.config, trk.state))

NextTracker ==
    \/ StepNoWithdrawal
    \/ StepMaxWithdrawal

SpecTracker == InitTracker /\ [][NextTracker]_vars

TrackerStepped == trk'.state.years_in_force = trk.state.years_in_force + 1

\* GWB(t+1) >= GWB(t) * (1 + rollup), up to one unit of the money grid.
RolledUp ==
    100 * (trk'.state.gwb + 1) > trk.state.gwb * (100 + trk.config.rollup_rate)

\* C9 as stated: at every annual step under compound rollup with zero
\* withdrawals GWB(t+1) >= GWB(t) * (1 + rollup), and a ratchet step never
\* decreases GWB.
GWBMonotoneAsStated ==
    [][TrackerStepped =>
          /\ (/\ trk.config.rollup_type = "compound"
              /\ trk.state.total_withdrawn = 0
              /\ trk'.withdrawal = 0) => RolledUp
          /\ RatchetDue(trk.config, trk.state) =>
                 trk'.state.gwb >= trk.state.gwb]_vars

\* C9 amended: the rollup bound holds at every annual step of the rollup
\* phase (years in force below the rollup cap years); a ratchet step never
\* decreases GWB.
GWBMonotone ==
    [][TrackerStepped =>
          /\ (/\ trk.config.rollup_type = "compound"
              /\ trk.state.total_withdrawn = 0
              /\ trk'.withdrawal = 0
              /\ trk.state.years_in_force < trk.config.rollup_cap_years)
                 => RolledUp
          /\ RatchetDue(trk.config, trk.state) =>
                 trk'.state.gwb >= trk.state.gwb]_vars

GWBRollupWitness ==
    /\ trk.kind = "tracker"
    /\ trk.config.rollup_type = "compound"
    /\ trk.config.rollup_cap_years > MaxTrackerYears
    /\ trk.state.total_withdrawn = 0
    /\ trk.state.years_in_force >= 2
    /\ trk.state.gwb > trk.premium
    /\ trk.was_ratcheted

(***************************************************************************)
(* GLWB path simulator                                                     *)
(*                                                                         *)
(* Money is in whole units, rates in percent, discount factors in 1e-4,    *)
(* mortality rates and uniform draws in 1e-3.  The generator is a small    *)
(* linear congruential generator: like numpy's, its stream is a function   *)
(* of the seed, and an unseeded generator starts from system entropy.      *)
(***************************************************************************)

RngModulus == 16
NextRng(state) == (5 * state + 3) % RngModulus
SeedState(seed) == (7 * seed + 1) % RngModulus

\* Generator.random(): a uniform draw in [0, 1), in 1e-3.
Uniform(state) == (state * 1000) \div RngModulus
\* Generator.standard_normal(): a deviate, in whole standard deviations.
Normal(state) == (state % 5) - 2

default_rng_unseeded(seed, entropy) == entropy

\* np.random.default_rng(seed)
default_rng(seed, entropy) ==
    IF IsNone(seed) THEN entropy ELSE SeedState(Val(seed))

\* GLWBPathSimulator._default_mortality for ages 85 .. 100:
\* min(1, 0.0001 * e^(0.08 * age)), in 1e-3.
default_mortality(age) ==
    << 89, 97, 105, 114, 123, 133, 145, 157, 170, 184, 199, 216, 234, 254,
       275, 298 >>[age - 84]

\* np.exp(-r * years): e^(-r) to second order, compounded yearly.
RECURSIVE DiscountFactor(_, _)
DiscountFactor(r, years) ==
    IF years = 0
    THEN 10000
    ELSE (DiscountFactor(r, years - 1) * (10000 - 100 * r + (r * r) \div 2))
             \div 10000

Discounted(amount, r, years) == (amount * DiscountFactor(r, years)) \div 10000

RECURSIVE SqrtBetween(_, _, _)
SqrtBetween(n, lo, hi) ==
    IF lo >= hi
    THEN lo
    ELSE LET mid == (lo + hi + 1) \div 2
         IN IF mid * mid <= n
            THEN SqrtBetween(n, mid, hi)
            ELSE SqrtBetween(n, lo, mid - 1)

\* np.sqrt, rounded down.
Sqrt(n) == SqrtBetween(n, 0, Min(n, 40000))

RECURSIVE SumSeq(_)
SumSeq(q) == IF q = <<>> THEN 0 ELSE q[1] + SumSeq(Tail(q))

\* The path at entry to the loop of simulate_single_path.
new_path(premium, age) ==
    [kind |-> "path", pc |-> "loop", t |-> 0,
     state |-> initial_state(premium),
     pv_insurer_payments |-> 0, pv_withdrawals |-> 0,
     ruin_year |-> -1, death_year |-> -1, current_age |-> age,
     insurer_payment |-> None]

on_death_no_break(p) == [p EXCEPT !.death_year = p.t, !.t = p.t + 1]

\* if self._rng.random() < qx: death_year = t; break
on_death(p) == [p EXCEPT !.death_year = p.t, !.pc = "return"]

loop_body_ruin_year_last(config, args, p, z) ==
    LET av_return == args.r - (args.sigma * args.sigma) \div 200 + args.sigma * z
        max_withdrawal == calculate_max_withdrawal(config, p.state)
        withdrawal == Pct(max_withdrawal, args.utilization_rate)
        result == step(config, args.premium, p.state, av_return, withdrawal)
        state == result.new_state
        ruined == state.av <= 0
    IN [p EXCEPT
           !.state = state,
           !.pv_withdrawals = @ + Discounted(result.withdrawal_taken, args.r, p.t + 1),
           !.ruin_year = IF ruined THEN p.t + 1 ELSE @,
           !.pv_insurer_payments =
               IF ruined THEN @ + Discounted(max_withdrawal, args.r, p.t + 1) ELSE @,
           !.insurer_payment = IF ruined THEN Some(max_withdrawal) ELSE None,
           !.current_age = @ + 1,
           !.t = @ + 1]

\* One iteration of the loop of simulate_single_path in which the annuitant
\* survives; z is the normal deviate drawn for the year.  insurer_payment
\* is the payment accumulated in this iteration, None if there was none.
loop_body(config, args, p, z) ==
    LET av_return == args.r - (args.sigma * args.sigma) \div 200 + args.sigma * z
        max_withdrawal == calculate_max_withdrawal(config, p.state)
        withdrawal == Pct(max_withdrawal, args.utilization_rate)
        result == step(config, args.premium, p.state, av_return, withdrawal)
        state == result.new_state
        ruined == state.av <= 0
    IN [p EXCEPT
           !.state = state,
           !.pv_withdrawals = @ + Discounted(result.withdrawal_taken, args.r, p.t + 1),
           !.ruin_year = IF ruined /\ @ < 0 THEN p.t + 1 ELSE @,
           !.pv_insurer_payments =
               IF ruined THEN @ + Discounted(max_withdrawal, args.r, p.t + 1) ELSE @,
           !.insurer_payment = IF ruined THEN Some(max_withdrawal) ELSE None,
           !.current_age = @ + 1,
           !.t = @ + 1]

PathResult(p) ==
    [pv_insurer_payments |-> p.pv_insurer_payments,
     pv_withdrawals |-> p.pv_withdrawals,
     ruin_year |-> p.ruin_year,
     final_av |-> p.state.av,
     final_gwb |-> p.state.gwb,
     death_year |-> p.death_year]

\* The aggregation at the end of price(): money in whole units,
\* guarantee_cost in basis points, prob_ruin in 1e-3, mean_ruin_year in
\* tenths of a year.
GLWBPricingResult(path_results, ruin_years, premium, n_paths) ==
    LET pv == [k \in 1 .. Len(path_results) |-> path_results[k].pv_insurer_payments]
        mean_payoff == SumSeq(pv) \div n_paths
        squares == [k \in 1 .. Len(pv) |-> (pv[k] - mean_payoff) * (pv[k] - mean_payoff)]
        std_payoff == Sqrt(SumSeq(squares) \div n_paths)
    IN [price |-> mean_payoff,
        guarantee_cost |-> (mean_payoff * 10000) \div premium,
        mean_payoff |-> mean_payoff,
        std_payoff |-> std_payoff,
        standard_error |-> Sqrt((std_payoff * std_payoff) \div n_paths),
        prob_ruin |-> (Len(ruin_years) * 1000) \div n_paths,
        mean_ruin_year |-> IF ruin_years = <<>> THEN -10
                           ELSE (SumSeq(ruin_years) * 10) \div Len(ruin_years),
        n_paths |-> n_paths]

\* The checks at the head of price().
price_raises(args) ==
    \/ args.premium <= 0
    \/ args.age < 0
    \/ args.age >= args.max_age
    \/ args.sigma < 0

\* Bounds of the simulated workload.
MaxYears == 3
MaxPaths == 2
MaxCalls == 2
MaxSeed == 1
DefaultMaxAge == 100

SimIds == {1, 2}
Seeds == {None} \cup {Some(n) : n \in 0 .. MaxSeed}
Entropy == {4, 11}

SimConfigs ==
    { [rollup_type |-> "compound", rollup_rate |-> 5, rollup_cap_years |-> 2,
       ratchet_enabled |-> TRUE, ratchet_frequency |-> 1,
       withdrawal_rate |-> 60, fee_rate |-> 1, fee_basis |-> "AV"],
      [rollup_type |-> "simple", rollup_rate |-> 5, rollup_cap_years |-> 10,
       ratchet_enabled |-> FALSE, ratchet_frequency |-> 1,
       withdrawal_rate |-> 5, fee_rate |-> 1, fee_basis |-> "GWB"],
      [rollup_type |-> "none", rollup_rate |-> 0, rollup_cap_years |-> 0,
       ratchet_enabled |-> TRUE, ratchet_frequency |-> 2,
       withdrawal_rate |-> 40, fee_rate |-> 2, fee_basis |-> "AV"] }

SimArgs ==
    [premium : {1000}, age : (DefaultMaxAge - MaxYears) .. DefaultMaxAge,
     r : {4}, sigma : {18}, max_age : {DefaultMaxAge},
     utilization_rate : {0, 100}]

\* Two simulators constructed with the same configuration and path count,
\* each with its own seed; the arguments every price() call is made with.
Init ==
    /\ credit = Idle
    /\ fia_call = Idle
    /\ gate_call = Idle
    /\ trk = Idle
    /\ \E config \in SimConfigs, n_paths \in 1 .. MaxPaths,
          seed \in [SimIds -> Seeds], entropy \in [SimIds -> Entropy] :
           sims = [i \in SimIds |->
                      [gwb_config |-> config, n_paths |-> n_paths,
                       seed |-> seed[i],
                       rng |-> default_rng(seed[i], entropy[i]),
                       results |-> <<>>]]
    /\ \E args \in SimArgs : run = [kind |-> "ready", args |-> args]
    /\ path = Idle
    /\ solver = Idle
    /\ calc = Idle
    /\ scen = Idle
    /\ rila_call = Idle
    /\ batch = Idle

OthersIdleSim ==
    UNCHANGED <<credit, fia_call, gate_call, trk, solver, calc, scen,
                   rila_call, batch>>

\* price() called with arguments it rejects.
PriceRaises(i) ==
    /\ run.kind = "ready"
    /\ Len(sims[i].results) < MaxCalls
    /\ price_raises(run.args)
    /\ sims' = [sims EXCEPT ![i].results =
                   Append(@, [status |-> "error", result |-> None])]
    /\ UNCHANGED <<run, path>>
    /\ OthersIdleSim

\* price() entered: the loop over paths begins.
StartPrice(i) ==
    /\ run.kind = "ready"
    /\ Len(sims[i].results) < MaxCalls
    /\ ~price_raises(run.args)
    /\ run' = [kind |-> "pricing", args |-> run.args, sim |-> i,
               n_years |-> run.args.max_age - run.args.age,
               path_results |-> <<>>, ruin_years |-> <<>>]
    /\ UNCHANGED <<sims, path>>
    /\ OthersIdleSim

\* simulate_single_path() entered.
StartPath ==
    /\ run.kind = "pricing"
    /\ path = Idle
    /\ Len(run.path_results) < sims[run.sim].n_paths
    /\ path' = new_path(run.args.premium, run.args.age)
    /\ UNCHANGED <<sims, run>>
    /\ OthersIdleSim

\* A loop iteration in which death is drawn.
YearDeath ==
    /\ run.kind = "pricing"
    /\ path.kind = "path"
    /\ path.pc = "loop"
    /\ path.t < run.n_years
    /\ LET drawn == NextRng(sims[run.sim].rng)
       IN /\ Uniform(drawn) < default_mortality(path.current_age)
          /\ sims' = [sims EXCEPT ![run.sim].rng = drawn]
          /\ path' = on_death(path)
    /\ UNCHANGED run
    /\ OthersIdleSim

\* A loop iteration in which the annuitant survives the year.
YearSurvive ==
    /\ run.kind = "pricing"
    /\ path.kind = "path"
    /\ path.pc = "loop"
    /\ path.t < run.n_years
    /\ LET drawn == NextRng(sims[run.sim].rng)
           drawn_z == NextRng(drawn)
       IN /\ ~(Uniform(drawn) < default_mortality(path.current_age))
          /\ sims' = [sims EXCEPT ![run.sim].rng = drawn_z]
          /\ path' = loop_body(sims[run.sim].gwb_config, run.args, path,
                               Normal(drawn_z))
    /\ UNCHANGED run
    /\ OthersIdleSim

\* range(n_years) is exhausted.
LoopExhausted ==
    /\ run.kind = "pricing"
    /\ path.kind = "path"
    /\ path.pc = "loop"
    /\ path.t = run.n_years
    /\ path' = [path EXCEPT !.pc = "return"]
    /\ UNCHANGED <<sims, run>>
    /\ OthersIdleSim

\* simulate_single_path() returns; price() appends the result.
EndPath ==
    /\ run.kind = "pricing"
    /\ path.kind = "path"
    /\ path.pc = "return"
    /\ run' = [run EXCEPT
                  !.path_results = Append(@, PathResult(path)),
                  !.ruin_years = IF path.ruin_year >= 0
                                 THEN Append(@, path.ruin_year) ELSE @]
    /\ path' = Idle
    /\ UNCHANGED sims
    /\ OthersIdleSim

\* price() aggregates the paths and returns.
FinishPrice ==
    /\ run.kind = "pricing"
    /\ path = Idle
    /\ Len(run.path_results) = sims[run.sim].n_paths
    /\ sims' = [sims EXCEPT ![run.sim].results =
                   Append(@, [status |-> "ok",
                              result |-> Some(GLWBPricingResult(
                                  run.path_results, run.ruin_years,
                                  run.args.premium, sims[run.sim].n_paths))])]
    /\ run' = [kind |-> "ready", args |-> run.args]
    /\ UNCHANGED path
    /\ OthersIdleSim

Next ==
    \/ \E i \in SimIds : PriceRaises(i)
    \/ \E i \in SimIds : StartPrice(i)
    \/ StartPath
    \/ YearDeath
    \/ YearSurvive
    \/ LoopExhausted
    \/ EndPath
    \/ FinishPrice

Spec == Init /\ [][Next]_vars

FirstResult(i) == sims[i].results[1]

\* C6: two simulators constructed with the same config, path count and
\* seed and called with the same price() arguments return identical
\* results in every field.
SameSeedSameResult ==
    (/\ ~IsNone(sims[1].seed)
     /\ sims[1].seed = sims[2].seed
     /\ Len(sims[1].results) >= 1
     /\ Len(sims[2].results) >= 1) =>
        FirstResult(1) = FirstResult(2)

SameSeedWitness ==
    /\ ~IsNone(sims[1].seed)
    /\ sims[1].seed = sims[2].seed
    /\ Len(sims[1].results) >= 1
    /\ Len(sims[2].results) >= 1
    /\ FirstResult(1).status = "ok"
    /\ FirstResult(2).status = "ok"
    /\ sims[1].n_paths >= 2
    /\ Val(FirstResult(1).result).price > 0
    /\ Val(FirstResult(1).result).std_payoff > 0

\* A transition inside one call of simulate_single_path.
PathStep == path.kind = "path" /\ path'.kind = "path"
\* A transition that runs the body of the loop for one surviving year.
YearProcessed == PathStep /\ path'.t = path.t + 1

\* C7: a year's guaranteed payment is accumulated into PV_insurer only if
\* AV had already reached 0 before that year's payment (the payment of the
\* year in which AV first hits 0 is no insurer payment), and a path that
\* is never ruined has PV_insurer = 0.
InsurerPaysOnlyAfterRuin ==
    /\ [][(YearProcessed /\ ~IsNone(path'.insurer_payment)) =>
              path.state.av <= 0]_vars
    /\ []((path.kind = "path" /\ path.ruin_year < 0) =>
              path.pv_insurer_payments = 0)

\* C8: once AV has reached 0 after an annual step it is 0 after every
\* later step of the path, ruin_year is fixed at the first such step, and
\* every later year the annuitant is alive accrues an insurer payment.
RuinIsAbsorbing ==
    [][PathStep =>
          /\ path.state.av = 0 =>
                 /\ path'.state.av = 0
                 /\ path.ruin_year >= 1
                 /\ path'.ruin_year = path.ruin_year
                 /\ path'.t = path.t + 1 => ~IsNone(path'.insurer_payment)
          /\ (path.state.av > 0 /\ path'.state.av = 0) =>
                 path'.ruin_year = path'.t]_vars

RuinedLaterYearWitness ==
    /\ path.kind = "path"
    /\ path.ruin_year >= 1
    /\ path.t > path.ruin_year
    /\ path.state.av = 0
    /\ ~IsNone(path.insurer_payment)

\* C10: a path runs at most max_age - age annual steps and terminates at
\* death or max-age; in the year death is drawn nothing is processed for
\* that year or any later year, death_year records that year, and
\* death_year = -1 exactly when the path ran to max-age.
PathTerminates ==
    /\ []((path.kind = "path") =>
              /\ run.n_years = run.args.max_age - run.args.age
              /\ path.t <= run.n_years)
    /\ []((path.kind = "path" /\ path.pc = "return") =>
              /\ path.death_year = -1 <=> path.t = run.n_years
              /\ path.death_year # -1 => path.death_year = path.t)
    /\ [][(PathStep /\ path'.death_year # -1) =>
              /\ path.pc = "loop"
              /\ path.death_year = -1
              /\ path'.pc = "return"
              /\ path'.death_year = path.t
              /\ path' = [path EXCEPT !.death_year = path.t, !.pc = "return"]]_vars
    /\ [][(path.kind = "path" /\ path.pc = "return") => path' = Idle]_vars

DiedAfterSurvivingWitness ==
    /\ path.kind = "path"
    /\ path.pc = "return"
    /\ path.death_year >= 1
    /\ path.t = path.death_year
    /\ path.t < run.n_years

(***************************************************************************)
(* Fair GLWB fee solver                                                    *)
(*                                                                         *)
(* calculate_fair_fee bisects on the fee rate.  Fees are in percent, like  *)
(* the tracker's fee_rate; guarantee cost, target cost and tolerance are   *)
(* in basis points of premium.  The fee bounds span a power of two so that *)
(* every midpoint of the run lies on the percent grid.                     *)
(***************************************************************************)

\* simulate_single_path as a function of the generator state it starts from:
\* the path result and the generator state it leaves.
RECURSIVE simulate_single_path(_, _, _, _, _)
simulate_single_path(config, args, n_years, p, rng) ==
    IF p.t = n_years
    THEN [result |-> PathResult(p), rng |-> rng]
    ELSE LET drawn == NextRng(rng)
             drawn_z == NextRng(drawn)
         IN IF Uniform(drawn) < default_mortality(p.current_age)
            THEN [result |-> PathResult(on_death(p)), rng |-> drawn]
            ELSE simulate_single_path(
                     config, args, n_years,
                     loop_body(config, args, p, Normal(drawn_z)), drawn_z)

\* The loop over paths of price() and its aggregation.
RECURSIVE price_paths(_, _, _, _, _, _)
price_paths(config, args, n_paths, rng, path_results, ruin_years) ==
    IF Len(path_results) = n_paths
    THEN GLWBPricingResult(path_results, ruin_years, args.premium, n_paths)
    ELSE LET done == simulate_single_path(
                         config, args, args.max_age - args.age,
                         new_path(args.premium, args.age), rng)
         IN price_paths(config, args, n_paths, done.rng,
                        Append(path_results, done.result),
                        IF done.result.ruin_year >= 0
                        THEN Append(ruin_years, done.result.ruin_year)
                        ELSE ruin_years)

\* GLWBPathSimulator(config, n_paths, seed).price(premium, age, r, sigma,
\* max_age) on a freshly constructed simulator.
price(config, n_paths, rng, args) ==
    price_paths(config, args, n_paths, rng, <<>>, <<>>)

\* cost_at_fee: the probe simulator copies the configuration with the fee
\* replaced, takes half the path count and the seed of the solver's
\* simulator.
ProbePaths(self) == self.n_paths \div 2

cost_at_fee_fresh_entropy(self, args, target_cost, fee, entropy) ==
    price([self.gwb_config EXCEPT !.fee_rate = fee], ProbePaths(self),
          entropy, args).guarantee_cost - target_cost

cost_at_fee(self, args, target_cost, fee, entropy) ==
    price([self.gwb_config EXCEPT !.fee_rate = fee], ProbePaths(self),
          default_rng(self.seed, entropy), args).guarantee_cost - target_cost

\* Bisection iterations a solver call may be given.
MaxIterations == 3
DefaultTolerance == 10

\* fee_bounds: 2^(MaxIterations + 1) percent wide.
FeeBounds == { <<0, 2 ^ (MaxIterations + 1)>> }

SolverSims ==
    [gwb_config : SimConfigs, n_paths : 2 .. 2 * MaxPaths, seed : Seeds]

SolverArgs ==
    { args \in SimArgs : ~price_raises(args) /\ args.utilization_rate = 100 }

\* Target costs: the default 0 and the costs the simulator attains at the
\* two ends of the fee bounds.
TargetCosts(self, args, fee_bounds) ==
    {0} \cup { cost_at_fee(self, args, 0, fee_bounds[k], 4) : k \in 1 .. 2 }

InitSolver ==
    /\ credit = Idle
    /\ fia_call = Idle
    /\ gate_call = Idle
    /\ trk = Idle
    /\ sims = Idle
    /\ run = Idle
    /\ path = Idle
    /\ solver = Idle
    /\ calc = Idle
    /\ scen = Idle
    /\ rila_call = Idle
    /\ batch = Idle

OthersIdleSolver ==
    UNCHANGED <<credit, fia_call, gate_call, trk, sims, run, path, calc, scen,
                   rila_call, batch>>

\* calculate_fair_fee entered: low, high = fee_bounds.  self_rng is the
\* state of the calling simulator's own generator, rng_at_entry its value
\* when the call was made.
CalculateFairFee ==
    /\ solver = Idle
    /\ \E self \in SolverSims, args \in SolverArgs, fee_bounds \in FeeBounds,
          max_iterations \in 1 .. MaxIterations, own_entropy \in Entropy :
         \E target_cost \in TargetCosts(self, args, fee_bounds) :
           solver' = [kind |-> "fair_fee", self |-> self, args |-> args,
                      self_rng |-> default_rng(self.seed, own_entropy),
                      rng_at_entry |-> default_rng(self.seed, own_entropy),
                      target_cost |-> target_cost,
                      tolerance |-> DefaultTolerance,
                      max_iterations |-> max_iterations,
                      fee_bounds |-> fee_bounds,
                      low |-> fee_bounds[1], high |-> fee_bounds[2],
                      iteration |-> 0, evaluations |-> <<>>,
                      pc |-> "loop", result |-> None, error |-> None,
                      converged |-> FALSE]
    /\ OthersIdleSolver

\* One iteration of the bisection loop: probe the midpoint, return it if
\* within tolerance, else move low (cost > 0) or high.
FairFeeProbe ==
    /\ solver.kind = "fair_fee"
    /\ solver.pc = "loop"
    /\ solver.iteration < solver.max_iterations
    /\ \E entropy \in Entropy :
         LET mid == (solver.low + solver.high) \div 2
             cost == cost_at_fee(solver.self, solver.args, solver.target_cost,
                                 mid, entropy)
             probe == [fee |-> mid, n_paths |-> ProbePaths(solver.self),
                       cost |-> cost]
         IN solver' =
              IF Abs(cost) < solver.tolerance
              THEN [solver EXCEPT !.evaluations = Append(@, probe),
                                  !.iteration = @ + 1,
                                  !.pc = "returned", !.result = Some(mid),
                                  !.converged = TRUE]
              ELSE IF cost > 0
              THEN [solver EXCEPT !.evaluations = Append(@, probe),
                                  !.iteration = @ + 1, !.low = mid]
              ELSE [solver EXCEPT !.evaluations = Append(@, probe),
                                  !.iteration = @ + 1, !.high = mid]
    /\ OthersIdleSolver

\* range(max_iterations) exhausted: return (low + high) / 2.
FairFeeExhausted ==
    /\ solver.kind = "fair_fee"
    /\ solver.pc = "loop"
    /\ solver.iteration = solver.max_iterations
    /\ solver' = [solver EXCEPT
                     !.pc = "returned",
                     !.result = Some((solver.low + solver.high) \div 2)]
    /\ OthersIdleSolver

(***************************************************************************)
(* Fair FIA cap and participation                                          *)
(*                                                                         *)
(* Cap rates and option values per unit of spot are in 1e-6.  The          *)
(* Black-Scholes call is a convex, decreasing curve in the strike with the *)
(* at-the-money value 0.4 * volatility for a one-year term; its slope is   *)
(* at most one half, so on the 1e-6 grid the capped-call value passes      *)
(* through every grid value between its values at two caps.                *)
(***************************************************************************)

CapUnit == 1000000
CapLow == 10000
FairCapIterations == 50
FairCapTolerance == 1

Markets == [spot : {100}, volatility : {0, 10, 20}]

\* black_scholes_call(spot, spot * (1 + cap), r, q, volatility, 1) / spot.
black_scholes_call(m, cap) ==
    LET atm == 4000 * m.volatility
    IN Max(atm - cap \div 2,
           Max(atm \div 2 - cap \div 8, Max(atm \div 8 - cap \div 64, 0)))

\* (atm_call - otm_call) / spot at the cap.
capped_value(m, cap) == black_scholes_call(m, 0) - black_scholes_call(m, cap)

budget_pct(option_budget, premium) == (option_budget * CapUnit) \div premium

\* The binary search of _solve_fair_cap; mid is the last midpoint tried.
RECURSIVE fair_cap_search(_, _, _, _, _, _)
fair_cap_search(m, target, low, high, mid, done) ==
    IF done = FairCapIterations
    THEN [cap |-> mid, converged |-> FALSE, iterations |-> done]
    ELSE LET next_mid == (low + high) \div 2
             value == capped_value(m, next_mid)
         IN IF Abs(value - target) < FairCapTolerance
            THEN [cap |-> next_mid, converged |-> TRUE, iterations |-> done + 1]
            ELSE IF value > target
            THEN fair_cap_search(m, target, low, next_mid, next_mid, done + 1)
            ELSE fair_cap_search(m, target, next_mid, high, next_mid, done + 1)

\* FIAPricer._solve_fair_cap
_solve_fair_cap(m, option_budget, premium) ==
    IF budget_pct(option_budget, premium) >= black_scholes_call(m, 0)
    THEN [cap |-> CapUnit, converged |-> TRUE, iterations |-> 0]
    ELSE fair_cap_search(m, budget_pct(option_budget, premium),
                         CapLow, CapUnit, CapLow, 0)

\* FIAPricer._solve_fair_participation: budget_pct / atm_call_pct, kept as
\* an exact quotient; 0 when the at-the-money call is below 1e-10.
_solve_fair_participation(m, option_budget, premium) ==
    IF black_scholes_call(m, 0) = 0
    THEN [num |-> 0, den |-> 1]
    ELSE [num |-> budget_pct(option_budget, premium),
          den |-> black_scholes_call(m, 0)]

SolverPremiums == {1000}
OptionBudgetAmounts == {1, 20, 30, 50, 100}

\* _solve_fair_cap called, as price() calls it.
SolveFairCap ==
    /\ solver = Idle
    /\ \E m \in Markets, option_budget \in OptionBudgetAmounts,
          premium \in SolverPremiums :
         LET found == _solve_fair_cap(m, option_budget, premium)
         IN solver' = [kind |-> "fair_cap", market |-> m,
                       option_budget |-> option_budget, premium |-> premium,
                       pc |-> "returned", result |-> Some(found.cap),
                       error |-> None, converged |-> found.converged,
                       iteration |-> found.iterations]
    /\ OthersIdleSolver

\* _solve_fair_participation called, as price() calls it.
SolveFairParticipation ==
    /\ solver = Idle
    /\ \E m \in Markets, option_budget \in OptionBudgetAmounts,
          premium \in SolverPremiums :
         solver' = [kind |-> "fair_participation", market |-> m,
                    option_budget |-> option_budget, premium |-> premium,
                    pc |-> "returned",
                    result |-> Some(_solve_fair_participation(
                                        m, option_budget, premium)),
                    error |-> None, converged |-> TRUE, iteration |-> 0]
    /\ OthersIdleSolver

NextSolver ==
    \/ CalculateFairFee
    \/ FairFeeProbe
    \/ FairFeeExhausted
    \/ SolveFairCap
    \/ SolveFairParticipation

SpecSolver == InitSolver /\ [][NextSolver]_vars

\* C11: every bisection probe of the fair-fee solver runs half the
\* configured path count, and the fee finally returned has been evaluated at
\* the full path count N before it is reported.
HalvedProbesFullReport ==
    solver.kind = "fair_fee" =>
        /\ \A k \in 1 .. solver.iteration :
               /\ solver.evaluations[k].n_paths = solver.self.n_paths \div 2
               /\ solver.evaluations[k].n_paths # solver.self.n_paths
        /\ solver.pc = "returned" =>
               \E k \in DOMAIN solver.evaluations :
                   /\ solver.evaluations[k].fee = Val(solver.result)
                   /\ solver.evaluations[k].n_paths = solver.self.n_paths

\* The solver used its whole iteration budget without meeting its tolerance.
BudgetExhausted ==
    /\ solver.kind \in {"fair_fee", "fair_cap"}
    /\ solver.pc = "returned"
    /\ ~solver.converged

\* C12: a bisection solver (fair GLWB fee, fair FIA cap) that exhausts its
\* iteration budget without meeting its tolerance surfaces a numeric error
\* carrying the offending value and the iteration count, and returns no fee
\* or cap.
ExhaustionSurfaced ==
    BudgetExhausted =>
        /\ solver.result = None
        /\ solver.error # None

\* guaranteeCost(fee) - target_cost as the solver's probes measure it.
SolverCost(fee) ==
    cost_at_fee(solver.self, solver.args, solver.target_cost, fee, 4)

\* C13: the fee returned by calculate_fair_fee lies in [fee_lo, fee_hi] and
\* meets |guaranteeCost(f) - target_cost| < tolerance whenever some fee in
\* the bounds attains the target.
FairFeeAttainsTarget ==
    (/\ solver.kind = "fair_fee"
     /\ solver.pc = "returned"
     /\ solver.self.seed # None) =>
        /\ Val(solver.result) >= solver.fee_bounds[1]
        /\ Val(solver.result) <= solver.fee_bounds[2]
        /\ (\E fee \in solver.fee_bounds[1] .. solver.fee_bounds[2] :
                Abs(SolverCost(fee)) < solver.tolerance)
              => Abs(SolverCost(Val(solver.result))) < solver.tolerance

\* participation * atm_call / spot for an exact quotient.
ParticipationValue(m, participation) ==
    IF participation.den = black_scholes_call(m, 0)
    THEN participation.num
    ELSE (participation.num * black_scholes_call(m, 0)) \div participation.den

\* C14: at the cap returned by the fair-cap solver the capped-call value
\* equals the option budget within tolerance, and at the returned fair
\* participation p the value p * ATM call equals the option budget within
\* tolerance.
FairTermsMatchBudget ==
    /\ solver.kind = "fair_cap" =>
           Abs(capped_value(solver.market, Val(solver.result))
                 - budget_pct(solver.option_budget, solver.premium))
               < FairCapTolerance
    /\ solver.kind = "fair_participation" =>
           Abs(ParticipationValue(solver.market, Val(solver.result))
                 - budget_pct(solver.option_budget, solver.premium))
               < FairCapTolerance

(***************************************************************************)
(* Dynamic lapse                                                           *)
(*                                                                         *)
(* Lapse rates are in basis points, money in whole units, the sensitivity  *)
(* a whole exponent.  Moneyness is kept as the exact quotient AV / GWB.    *)
(***************************************************************************)

RECURSIVE Power(_, _)
Power(base, exponent) ==
    IF exponent = 0 THEN 1 ELSE base * Power(base, exponent - 1)

\* np.clip(x, a_min, a_max)
clip(x, a_min, a_max) == Min(Max(x, a_min), a_max)

\* moneyness = av / gwb, or 1.0 when gwb is 0.
moneyness(gwb, av) ==
    IF gwb > 0 THEN [num |-> av, den |-> gwb] ELSE [num |-> 1, den |-> 1]

calculate_lapse_inverse_moneyness(assumptions, gwb, av, surrender_period_complete) ==
    IF av <= 0 \/ gwb < 0
    THEN [status |-> "error", lapse_rate |-> -1]
    ELSE LET m == IF gwb > 0 THEN [num |-> gwb, den |-> av]
                  ELSE [num |-> 1, den |-> 1]
             base_rate == IF surrender_period_complete
                          THEN assumptions.base_annual_lapse
                          ELSE assumptions.base_annual_lapse \div 5
         IN [status |-> "ok",
             lapse_rate |->
                 clip((base_rate * Power(m.num, assumptions.sensitivity))
                          \div Power(m.den, assumptions.sensitivity),
                      assumptions.min_lapse, assumptions.max_lapse)]

\* DynamicLapseModel.calculate_lapse: ValueError ("error") when av <= 0 or
\* gwb < 0, else the clipped rate.
calculate_lapse(assumptions, gwb, av, surrender_period_complete) ==
    IF av <= 0 \/ gwb < 0
    THEN [status |-> "error", lapse_rate |-> -1]
    ELSE LET m == moneyness(gwb, av)
             base_rate == IF surrender_period_complete
                          THEN assumptions.base_annual_lapse
                          ELSE assumptions.base_annual_lapse \div 5
         IN [status |-> "ok",
             lapse_rate |->
                 clip((base_rate * Power(m.num, assumptions.sensitivity))
                          \div Power(m.den, assumptions.sensitivity),
                      assumptions.min_lapse, assumptions.max_lapse)]

\* DynamicLapseModel.calculate_path_lapses: one calculate_lapse call per
\* step; any error ends the call.
calculate_path_lapses(assumptions, gwb_path, av_path, surrender_period_ends) ==
    IF Len(gwb_path) # Len(av_path)
    THEN [status |-> "error", lapse_rates |-> <<>>]
    ELSE LET results == [t \in 1 .. Len(gwb_path) |->
                            calculate_lapse(assumptions, gwb_path[t], av_path[t],
                                            t - 1 >= surrender_period_ends)]
         IN IF \E t \in 1 .. Len(gwb_path) : results[t].status = "error"
            THEN [status |-> "error", lapse_rates |-> <<>>]
            ELSE [status |-> "ok",
                  lapse_rates |-> [t \in 1 .. Len(gwb_path) |->
                                      results[t].lapse_rate]]

\* Steps of a path handed to calculate_path_lapses.
MaxLapseSteps == 2

LapseAssumptions ==
    [base_annual_lapse : {500}, min_lapse : {100}, max_lapse : {2500},
     sensitivity : {0, 1, 2}]
LapseGWB == {-1, 0, 50, 100, 200}
LapseAV == {-1, 0, 50, 100, 150, 400}
LapsePathGWB == {0, 100}
LapsePathAV == {0, 50, 300}
PathsOver(values) == UNION { [1 .. n -> values] : n \in 0 .. MaxLapseSteps }

InitLapse ==
    /\ credit = Idle
    /\ fia_call = Idle
    /\ gate_call = Idle
    /\ trk = Idle
    /\ sims = Idle
    /\ run = Idle
    /\ path = Idle
    /\ solver = Idle
    /\ calc = Idle
    /\ scen = Idle
    /\ rila_call = Idle
    /\ batch = Idle

OthersIdleCalc ==
    UNCHANGED <<credit, fia_call, gate_call, trk, sims, run, path, solver, scen,
                   rila_call, batch>>

CalculateLapse ==
    /\ calc = Idle
    /\ \E assumptions \in LapseAssumptions, gwb \in LapseGWB, av \in LapseAV,
          surrender_period_complete \in BOOLEAN :
         calc' = [kind |-> "lapse", assumptions |-> assumptions,
                  gwb |-> gwb, av |-> av,
                  surrender_period_complete |-> surrender_period_complete,
                  result |-> calculate_lapse(assumptions, gwb, av,
                                             surrender_period_complete)]
    /\ OthersIdleCalc

CalculatePathLapses ==
    /\ calc = Idle
    /\ \E assumptions \in LapseAssumptions, gwb_path \in PathsOver(LapsePathGWB),
          av_path \in PathsOver(LapsePathAV),
          surrender_period_ends \in 0 .. MaxLapseSteps :
         calc' = [kind |-> "path_lapses", assumptions |-> assumptions,
                  gwb_path |-> gwb_path, av_path |-> av_path,
                  surrender_period_ends |-> surrender_period_ends,
                  result |-> calculate_path_lapses(assumptions, gwb_path,
                                                   av_path, surrender_period_ends)]
    /\ OthersIdleCalc

\* Survival curve.  Lapse rates are in quarters of a unit and dt in whole
\* years, so prob_stay = (LapseUnit - lapse * dt) / LapseUnit; the entry at
\* index t + 1 of the curve is kept exactly, as its numerator over
\* LapseUnit ^ t.
LapseUnit == 4
MaxSurvivalSteps == 3
SurvivalLapseRates == {-1, 0, 1, 2, 4}
SurvivalSteps == {1, 2}

RECURSIVE survival_product(_, _, _)
survival_product(lapse_rates, dt, survival) ==
    LET t == Len(survival)
    IN IF t = Len(lapse_rates) + 1
       THEN survival
       ELSE survival_product(lapse_rates, dt,
                Append(survival,
                       survival[t] * (LapseUnit - lapse_rates[t] * dt)))

calculate_survival_probability_unclamped(lapse_rates, dt) ==
    survival_product(lapse_rates, dt, << 1 >>)

RECURSIVE survival_loop(_, _, _)
survival_loop(lapse_rates, dt, survival) ==
    LET t == Len(survival)
    IN IF t = Len(lapse_rates) + 1
       THEN survival
       ELSE survival_loop(lapse_rates, dt,
                Append(survival,
                       survival[t] * Max(LapseUnit - lapse_rates[t] * dt, 0)))

\* survival = ones(n_steps + 1);
\* survival[t + 1] = survival[t] * max(1 - lapse_rates[t] * dt, 0)
calculate_survival_probability(lapse_rates, dt) ==
    survival_loop(lapse_rates, dt, << 1 >>)

CalculateSurvivalProbability ==
    /\ calc = Idle
    /\ \E n \in 0 .. MaxSurvivalSteps, dt \in SurvivalSteps :
         \E lapse_rates \in [1 .. n -> SurvivalLapseRates] :
           calc' = [kind |-> "survival", lapse_rates |-> lapse_rates,
                    dt |-> dt,
                    survival |-> calculate_survival_probability(lapse_rates, dt)]
    /\ OthersIdleCalc

NextLapse ==
    \/ CalculateLapse
    \/ CalculatePathLapses
    \/ CalculateSurvivalProbability

SpecLapse == InitLapse /\ [][NextLapse]_vars

\* AV1 / GWB1 <= AV2 / GWB2 for the moneyness the law computes.
MoneynessLeq(m1, m2) == m1.num * m2.den <= m2.num * m1.den

\* C15: for fixed assumptions (sensitivity >= 0) and a fixed surrender flag
\* the lapse rate is non-decreasing in moneyness: of any two inputs the one
\* with the larger AV / GWB gets the larger or equal rate.
LapseMonotoneInMoneyness ==
    (calc.kind = "lapse" /\ calc.result.status = "ok") =>
        \A gwb \in LapseGWB, av \in LapseAV :
            LET other == calculate_lapse(calc.assumptions, gwb, av,
                                         calc.surrender_period_complete)
            IN (/\ other.status = "ok"
                /\ MoneynessLeq(moneyness(calc.gwb, calc.av), moneyness(gwb, av)))
                   => calc.result.lapse_rate <= other.lapse_rate

LapseMonotoneWitness ==
    /\ calc.kind = "lapse"
    /\ calc.result.status = "ok"
    /\ calc.assumptions.sensitivity > 0
    /\ calc.gwb > calc.av
    /\ calc.result.lapse_rate > calc.assumptions.min_lapse
    /\ calc.result.lapse_rate < calc.assumptions.base_annual_lapse

\* The law of the specification: clip(base * m^sensitivity, min, max).
LapseLaw(assumptions, gwb, av, surrender_period_complete) ==
    LET m == moneyness(gwb, av)
        base_rate == IF surrender_period_complete
                     THEN assumptions.base_annual_lapse
                     ELSE assumptions.base_annual_lapse \div 5
    IN clip((base_rate * Power(m.num, assumptions.sensitivity))
                \div Power(m.den, assumptions.sensitivity),
            assumptions.min_lapse, assumptions.max_lapse)

\* C16: for every GWB >= 0 and AV >= 0, a ruined contract (AV = 0) included,
\* the returned rate is clip(base * m^sensitivity, minLapse, maxLapse) and
\* lies in [minLapse, maxLapse]; calculate_path_lapses returns one such rate
\* for every step of the path.
LapseLawTotal ==
    /\ (calc.kind = "lapse" /\ calc.gwb >= 0 /\ calc.av >= 0) =>
           /\ calc.result.status = "ok"
           /\ calc.result.lapse_rate =
                  LapseLaw(calc.assumptions, calc.gwb, calc.av,
                           calc.surrender_period_complete)
           /\ calc.result.lapse_rate >= calc.assumptions.min_lapse
           /\ calc.result.lapse_rate <= calc.assumptions.max_lapse
    /\ (calc.kind = "path_lapses" /\ Len(calc.gwb_path) = Len(calc.av_path)) =>
           /\ calc.result.status = "ok"
           /\ Len(calc.result.lapse_rates) = Len(calc.gwb_path)
           /\ \A t \in 1 .. Len(calc.gwb_path) :
                  /\ calc.result.lapse_rates[t] >= calc.assumptions.min_lapse
                  /\ calc.result.lapse_rates[t] <= calc.assumptions.max_lapse

(***************************************************************************)
(* Scenario generator: Vasicek rate paths                                  *)
(*                                                                         *)
(* Rates, theta and sigma are in basis points, kappa and the correlation   *)
(* in percent, shocks in whole standard deviations.  The equity returns of *)
(* a scenario do not enter the rate recursion and are left out of the      *)
(* state.                                                                  *)
(***************************************************************************)

vasicek_step_no_floor(params, r_prev, shock) ==
    r_prev + (params.kappa * (params.theta - r_prev)) \div 100
           + params.sigma * shock

\* r_new = r_prev + kappa * (theta - r_prev) + sigma * shock, floored at 0.
vasicek_step(params, r_prev, shock) ==
    Max(r_prev + (params.kappa * (params.theta - r_prev)) \div 100
               + params.sigma * shock,
        0)

MaxScenarios == 2
MaxProjectionYears == 3
MaxRejectedCalls == 1

\* _generate_correlated_shocks draws z1 and z2, each of n_scenarios by
\* projection_years standard normals.
correlated_shock_draws(g) == 2 * g.n_scenarios * g.projection_years

\* The correlation check at the head of generate_ag43_scenarios raises
\* before anything is drawn.
generate_raises(g) == [g EXCEPT !.rejected = @ + 1]

VasicekParams == [kappa : {20, 150}, theta : {400, -200}, sigma : {100}]
InitialRates == {-100, 400}
Correlations == {-150, -20}
Shocks == {-4, 3}

\* ScenarioGenerator(n_scenarios, projection_years)
InitScenario ==
    /\ credit = Idle
    /\ fia_call = Idle
    /\ gate_call = Idle
    /\ trk = Idle
    /\ sims = Idle
    /\ run = Idle
    /\ path = Idle
    /\ solver = Idle
    /\ calc = Idle
    /\ rila_call = Idle
    /\ batch = Idle
    /\ \E n_scenarios \in 1 .. MaxScenarios,
          projection_years \in 1 .. MaxProjectionYears :
           scen = [kind |-> "generator", n_scenarios |-> n_scenarios,
                   projection_years |-> projection_years,
                   draws |-> 0, rejected |-> 0]

OthersIdleScenario ==
    UNCHANGED <<credit, fia_call, gate_call, trk, sims, run, path, solver, calc,
                   rila_call, batch>>

\* generate_ag43_scenarios with a correlation outside [-1, 1]: the
\* ValueError leaves the generator as it was; rejected counts such calls.
GenerateRaises ==
    /\ scen.kind = "generator"
    /\ scen.rejected < MaxRejectedCalls
    /\ \E correlation \in Correlations :
         /\ ~(-100 <= correlation /\ correlation <= 100)
         /\ scen' = generate_raises(scen)
    /\ OthersIdleScenario

\* generate_ag43_scenarios: draws counts the numbers taken from self._rng;
\* the shocks are drawn and _generate_vasicek_paths
\* is entered with r_prev = initial_rate for every scenario.
GenerateAG43 ==
    /\ scen.kind = "generator"
    /\ \E correlation \in Correlations, params \in VasicekParams,
          initial_rate \in InitialRates,
          shocks \in [1 .. scen.n_scenarios ->
                         [1 .. scen.projection_years -> Shocks]] :
         /\ -100 <= correlation /\ correlation <= 100
         /\ scen' = [kind |-> "vasicek", n_scenarios |-> scen.n_scenarios,
                     projection_years |-> scen.projection_years,
                     draws |-> scen.draws + correlated_shock_draws(scen),
                     rejected |-> scen.rejected,
                     params |-> params, initial_rate |-> initial_rate,
                     shocks |-> shocks, t |-> 0,
                     r_prev |-> [i \in 1 .. scen.n_scenarios |-> initial_rate],
                     rates |-> [i \in 1 .. scen.n_scenarios |-> <<>>]]
    /\ OthersIdleScenario

\* One iteration of the loop over years of _generate_vasicek_paths.
VasicekYear ==
    /\ scen.kind = "vasicek"
    /\ scen.t < scen.projection_years
    /\ LET column == [i \in 1 .. scen.n_scenarios |->
                         vasicek_step(scen.params, scen.r_prev[i],
                                      scen.shocks[i][scen.t + 1])]
       IN scen' = [scen EXCEPT
                      !.rates = [i \in 1 .. scen.n_scenarios |->
                                    Append(scen.rates[i], column[i])],
                      !.r_prev = column,
                      !.t = @ + 1]
    /\ OthersIdleScenario

\* The rate paths are returned and the scenario objects built.
BuildScenarios ==
    /\ scen.kind = "vasicek"
    /\ scen.t = scen.projection_years
    /\ scen' = [scen EXCEPT !.kind = "scenarios"]
    /\ OthersIdleScenario

NextScenario ==
    \/ GenerateRaises
    \/ GenerateAG43
    \/ VasicekYear
    \/ BuildScenarios

SpecScenario == InitScenario /\ [][NextScenario]_vars

\* The rate the recursion starts year t of scenario i from.
PreviousRate(i, t) ==
    IF t = 1 THEN scen.initial_rate ELSE scen.rates[i][t - 1]

\* C17: every rate on every path of every scenario is >= 0 for any shocks,
\* Vasicek parameters and initial rate, and each year's rate equals
\* max(0, r + kappa * (theta - r) + sigma_r * z) for the previous year's
\* floored rate r (the initial rate in the first year).
RatesFloored ==
    scen.kind \in {"vasicek", "scenarios"} =>
        \A i \in 1 .. scen.n_scenarios :
            \A t \in 1 .. Len(scen.rates[i]) :
                /\ scen.rates[i][t] >= 0
                /\ LET r == PreviousRate(i, t)
                   IN scen.rates[i][t] =
                          Max(0, r + (scen.params.kappa * (scen.params.theta - r))
                                         \div 100
                                   + scen.params.sigma * scen.shocks[i][t])

RatesFlooredWitness ==
    /\ scen.kind = "scenarios"
    /\ scen.projection_years >= 3
    /\ \E i \in 1 .. scen.n_scenarios :
           /\ scen.rates[i][1] > 0
           /\ scen.rates[i][2] = 0
           /\ scen.rates[i][3] > 0

(***************************************************************************)
(* CTE of a set of scenario PVs                                            *)
(*                                                                         *)
(* The value the VM-21 figure reports as CTE at level alpha (percent):     *)
(* the scenario PVs sorted ascending, indexed at int(alpha * n).           *)
(***************************************************************************)

\* np.sort
sort(values) == SortSeq(values, LAMBDA a, b : a < b)

\* cte_idx = int(alpha * len(scenario_pvs)), a 0-based index.
cte_idx(scenario_pvs, alpha) == (alpha * Len(scenario_pvs)) \div 100

\* cte_value = np.sort(scenario_pvs)[cte_idx]
cte_value(scenario_pvs, alpha) ==
    sort(scenario_pvs)[cte_idx(scenario_pvs, alpha) + 1]

\* Scenarios in the set.
MaxScenarioPVs == 4
ScenarioPVValues == {0, 100, 130}

InitCTE ==
    /\ credit = Idle
    /\ fia_call = Idle
    /\ gate_call = Idle
    /\ trk = Idle
    /\ sims = Idle
    /\ run = Idle
    /\ path = Idle
    /\ solver = Idle
    /\ calc = Idle
    /\ scen = Idle
    /\ rila_call = Idle
    /\ batch = Idle

\* The figure's CTE70 and mean of one scenario set.
ComputeCTE ==
    /\ calc = Idle
    /\ \E n \in 1 .. MaxScenarioPVs :
         \E scenario_pvs \in [1 .. n -> ScenarioPVValues] :
           calc' = [kind |-> "cte", scenario_pvs |-> scenario_pvs,
                    sorted |-> sort(scenario_pvs),
                    cte70 |-> cte_value(scenario_pvs, 70),
                    sum |-> SumSeq(scenario_pvs)]
    /\ OthersIdleCalc

NextCTE == ComputeCTE

SpecCTE == InitCTE /\ [][NextCTE]_vars

\* The worst (1 - alpha) fraction: the largest PVs, from the index of the
\* level upward.
TailOf(sorted, alpha) ==
    SubSeq(sorted, cte_idx(sorted, alpha) + 1, Len(sorted))

\* C18: on a fixed scenario set CTE(alpha) is the mean of the worst
\* (1 - alpha) fraction of scenarios and is non-decreasing in alpha, hence
\* CTE70 >= CTE50 >= mean of all scenarios.
CTEIsTailMean ==
    calc.kind = "cte" =>
        /\ calc.cte70 * Len(TailOf(calc.sorted, 70))
               = SumSeq(TailOf(calc.sorted, 70))
        /\ calc.cte70 >= cte_value(calc.scenario_pvs, 50)
        /\ cte_value(calc.scenario_pvs, 50) * Len(calc.scenario_pvs) >= calc.sum
        /\ calc.cte70 * Len(calc.scenario_pvs) >= calc.sum

(***************************************************************************)
(* RILAPricer.price and RILAPricer.calculate_greeks                        *)
(*                                                                         *)
(* A RILA product is a record of its class, its textual buffer modifier    *)
(* (a sequence of words), its optional protection rate and cap rate (basis *)
(* points) and its optional term.  Strikes are in basis points of spot.    *)
(* Option values and Greeks come from modules outside this model; a result *)
(* keeps the protection type, the rate used and what follows from it.      *)
(***************************************************************************)

DefaultBufferRate == 1000

\* str.lower() on the words that occur in modifiers.
lower(word) ==
    CASE word \in {"Losses", "LOSSES"} -> "losses"
      [] word \in {"Covered", "COVERED"} -> "covered"
      [] word \in {"Up", "UP"} -> "up"
      [] word \in {"To", "TO"} -> "to"
      [] word \in {"After", "AFTER"} -> "after"
      [] word \in {"Buffer", "BUFFER"} -> "buffer"
      [] OTHER -> word

\* "up to" in modifier.lower()
contains_up_to(modifier) ==
    \E k \in 1 .. Len(modifier) - 1 :
        lower(modifier[k]) = "up" /\ lower(modifier[k + 1]) = "to"

\* "after" in modifier.lower()
contains_after(modifier) ==
    \E k \in 1 .. Len(modifier) : lower(modifier[k]) = "after"

\* RILAProduct.is_buffer()
is_buffer(product) == contains_up_to(product.buffer_modifier)

\* The literal modifiers calculate_greeks compares against.
GreeksBufferModifiers ==
    { << "Losses", "Covered", "Up", "To" >>,
      << "Losses", "Covered", "Up", "to" >>,
      << "Buffer" >> }

\* term_years resolved from the argument, else from the product.
resolve_term_years(product, term_years) ==
    IF IsNone(term_years) THEN product.term_years ELSE term_years

RilaError(error) ==
    [status |-> "error", exception |-> "ValueError", error |-> error,
     result |-> None]

\* RILAPricer.price: an error (no result), or the result.
rila_price(product, term_years, premium) ==
    IF product.class # "RILAProduct"
    THEN RilaError("Expected RILAProduct")
    ELSE LET term == resolve_term_years(product, term_years)
         IN IF IsNone(term) \/ Val(term) <= 0
            THEN RilaError("term_years required and must be > 0")
            ELSE IF IsNone(product.buffer_rate)
            THEN IF is_buffer(product)
                 THEN RilaError("missing buffer_rate")
                 ELSE RilaError("missing floor_rate")
            ELSE LET buffer_rate == Val(product.buffer_rate)
                 IN [status |-> "ok", exception |-> "", error |-> "",
                     result |-> Some(
                         [protection_type |->
                              IF is_buffer(product) THEN "buffer" ELSE "floor",
                          buffer_rate |-> buffer_rate,
                          max_loss |-> IF is_buffer(product)
                                       THEN BpPerUnit - buffer_rate
                                       ELSE buffer_rate,
                          term_years |-> Val(term),
                          premium |-> premium])]

\* RILAPricer.calculate_greeks: an error (no result), or the protection
\* type and the out-of-the-money strike spot * (1 - buffer_rate) the
\* Greeks are taken at.  "product.buffer_rate or 0.10" selects 0.10 for a
\* missing rate and for a rate of 0.
calculate_greeks(product, term_years) ==
    IF product.class # "RILAProduct"
    THEN RilaError("Expected RILAProduct")
    ELSE LET term == resolve_term_years(product, term_years)
         IN IF IsNone(term) \/ Val(term) <= 0
            THEN RilaError("term_years required and must be > 0")
            ELSE LET buffer ==
                         product.buffer_modifier \in GreeksBufferModifiers
                     buffer_rate ==
                         IF IsNone(product.buffer_rate)
                            \/ Val(product.buffer_rate) = 0
                         THEN DefaultBufferRate
                         ELSE Val(product.buffer_rate)
                 IN [status |-> "ok", exception |-> "", error |-> "",
                     result |-> Some(
                         [protection_type |->
                              IF buffer THEN "buffer" ELSE "floor",
                          otm_strike |-> BpPerUnit - buffer_rate,
                          term_years |-> Val(term)])]

BufferModifiers ==
    { << "Losses", "Covered", "Up", "To" >>,
      << "Losses", "Covered", "Up", "to" >>,
      << "Losses", "Covered", "Up", "To", "10%" >>,
      << "LOSSES", "COVERED", "UP", "TO" >>,
      << "Buffer" >>,
      << "Losses", "Covered", "After" >>,
      << "losses", "covered", "after" >> }
RILABufferRates == {None, Some(0), Some(1000), Some(2000)}
RILACapRates == {None, Some(1500)}
RILAProductTerms == {None, Some(6)}
RILACallTerms == {None, Some(0), Some(3)}
RILAPremiums == {100}

RILAProducts ==
    [class : {"RILAProduct"}, buffer_modifier : BufferModifiers,
     buffer_rate : RILABufferRates, cap_rate : RILACapRates,
     term_years : RILAProductTerms]
NonRILAProducts ==
    [class : {"FIAProduct"}, buffer_modifier : {<<>>}, buffer_rate : {None},
     cap_rate : RILACapRates, term_years : {None}]

InitRILA ==
    /\ credit = Idle
    /\ fia_call = Idle
    /\ gate_call = Idle
    /\ trk = Idle
    /\ sims = Idle
    /\ run = Idle
    /\ path = Idle
    /\ solver = Idle
    /\ calc = Idle
    /\ scen = Idle
    /\ rila_call = Idle
    /\ batch = Idle

OthersIdleRILA ==
    UNCHANGED <<credit, fia_call, gate_call, trk, sims, run, path, solver, calc,
                scen, batch>>

\* pricer.price(product, term_years=..., premium=...)
PriceRILA ==
    /\ rila_call = Idle
    /\ \E product \in RILAProducts \cup NonRILAProducts,
          term_years \in RILACallTerms, premium \in RILAPremiums :
         rila_call' = [kind |-> "price", product |-> product,
                       term_years |-> term_years,
                       outcome |-> rila_price(product, term_years, premium)]
    /\ OthersIdleRILA

\* pricer.calculate_greeks(product, term_years=...)
CalculateGreeks ==
    /\ rila_call = Idle
    /\ \E product \in RILAProducts \cup NonRILAProducts,
          term_years \in RILACallTerms :
         rila_call' = [kind |-> "calculate_greeks", product |-> product,
                       term_years |-> term_years,
                       outcome |-> calculate_greeks(product, term_years)]
    /\ OthersIdleRILA

NextRILA ==
    \/ PriceRILA
    \/ CalculateGreeks

SpecRILA == InitRILA /\ [][NextRILA]_vars

\* The call got past the product-class and term checks.
RilaCallWellFormed ==
    /\ rila_call.kind # "idle"
    /\ rila_call.product.class = "RILAProduct"
    /\ LET term == resolve_term_years(rila_call.product, rila_call.term_years)
       IN ~IsNone(term) /\ Val(term) > 0

\* C25: price and calculate_greeks both fail with an error when the
\* product's protection rate is absent, and both use the product's own rate
\* whenever it is present; no default is substituted.
NoDefaultProtectionRate ==
    RilaCallWellFormed =>
        LET rate == rila_call.product.buffer_rate
            out == rila_call.outcome
        IN IF IsNone(rate)
           THEN out.status = "error"
           ELSE /\ out.status = "ok"
                /\ rila_call.kind = "price" =>
                       Val(out.result).buffer_rate = Val(rate)
                /\ rila_call.kind = "calculate_greeks" =>
                       Val(out.result).otm_strike = BpPerUnit - Val(rate)

\* C30: price and calculate_greeks classify a product's protection alike,
\* from the modifier: containing "up to" in any case is a buffer; the same
\* product is never a buffer to one operation and a floor to the other.
SameProtectionClassification ==
    (RilaCallWellFormed /\ rila_call.outcome.status = "ok") =>
        LET product == rila_call.product
            priced == rila_price(product, rila_call.term_years, 100)
            greeks == calculate_greeks(product, rila_call.term_years)
            tag == IF contains_up_to(product.buffer_modifier)
                   THEN "buffer" ELSE "floor"
        IN /\ Val(rila_call.outcome.result).protection_type = tag
           /\ (priced.status = "ok" /\ greeks.status = "ok") =>
                  Val(priced.result).protection_type
                      = Val(greeks.result).protection_type

(***************************************************************************)
(* FIAPricer.price_multiple and RILAPricer.price_multiple                  *)
(*                                                                         *)
(* The batch loop, one iteration per step.  A list element is a product    *)
(* record; an element of class "NoneType" stands for an object without     *)
(* the company_name and product_name attributes.  A row keeps the product  *)
(* it was built from and its error column (None for a priced product).     *)
(***************************************************************************)

MaxBatch == 3

\* self.price(product, term_years=term_years, premium=premium) of the pricer.
batch_price(pricer, product, term_years, premium) ==
    IF pricer = "FIAPricer"
    THEN fia_price(product, premium)
    ELSE rila_price(product, term_years, premium)

\* The except clause reads product.company_name and product.product_name.
has_names(product) == product.class # "NoneType"

\* One pass of "for product in products": the loop variables after it.
price_multiple_iteration(b) ==
    LET product == b.products[b.i]
        outcome == batch_price(b.pricer, product, b.term_years, b.premium)
    IN IF outcome.status = "ok"
       THEN [b EXCEPT !.results = Append(@, [product |-> product,
                                             error |-> None]),
                      !.i = @ + 1]
       ELSE IF outcome.exception # "ValueError"
       THEN [b EXCEPT !.pc = "raised", !.exception = outcome.exception]
       ELSE IF ~has_names(product)
       THEN [b EXCEPT !.pc = "raised", !.exception = "AttributeError"]
       ELSE [b EXCEPT !.results = Append(@, [product |-> product,
                                             error |-> Some(outcome.error)]),
                      !.i = @ + 1]

NoProduct ==
    [class |-> "NoneType", cap_rate |-> None, participation_rate |-> None,
     spread_rate |-> None, performance_triggered_rate |-> None]
FIABatchProducts ==
    { [class |-> "FIAProduct", cap_rate |-> Some(800),
       participation_rate |-> None, spread_rate |-> None,
       performance_triggered_rate |-> None],
      [class |-> "FIAProduct", cap_rate |-> None,
       participation_rate |-> None, spread_rate |-> None,
       performance_triggered_rate |-> None],
      NoProduct }
RILABatchProducts ==
    { [class |-> "RILAProduct",
       buffer_modifier |-> << "Losses", "Covered", "Up", "To" >>,
       buffer_rate |-> Some(1000), cap_rate |-> Some(1500),
       term_years |-> Some(6)],
      [class |-> "RILAProduct",
       buffer_modifier |-> << "Losses", "Covered", "After" >>,
       buffer_rate |-> None, cap_rate |-> Some(1500), term_years |-> Some(6)],
      [class |-> "NoneType", buffer_modifier |-> <<>>, buffer_rate |-> None,
       cap_rate |-> None, term_years |-> None] }
BatchPremiums == {0, 100}

ListsOf(elements) ==
    UNION { [1 .. n -> elements] : n \in 0 .. MaxBatch }

InitBatch ==
    /\ credit = Idle
    /\ fia_call = Idle
    /\ gate_call = Idle
    /\ trk = Idle
    /\ sims = Idle
    /\ run = Idle
    /\ path = Idle
    /\ solver = Idle
    /\ calc = Idle
    /\ scen = Idle
    /\ rila_call = Idle
    /\ batch = Idle

OthersIdleBatch ==
    UNCHANGED <<credit, fia_call, gate_call, trk, sims, run, path, solver, calc,
                scen, rila_call>>

PriceMultipleCall(pricer, products, premium) ==
    /\ batch = Idle
    /\ batch' = [kind |-> "price_multiple", pricer |-> pricer,
                 products |-> products, term_years |-> None,
                 premium |-> premium, i |-> 1, results |-> <<>>,
                 pc |-> "loop", exception |-> ""]
    /\ OthersIdleBatch

\* FIAPricer.price_multiple(products, premium=...)
FIAPriceMultiple ==
    \E products \in ListsOf(FIABatchProducts), premium \in BatchPremiums :
        PriceMultipleCall("FIAPricer", products, premium)

\* RILAPricer.price_multiple(products, premium=...)
RILAPriceMultiple ==
    \E products \in ListsOf(RILABatchProducts), premium \in BatchPremiums :
        PriceMultipleCall("RILAPricer", products, premium)

\* One iteration of the loop body.
PriceMultipleIteration ==
    /\ batch.kind = "price_multiple"
    /\ batch.pc = "loop"
    /\ batch.i <= Len(batch.products)
    /\ batch' = price_multiple_iteration(batch)
    /\ OthersIdleBatch

\* return pd.DataFrame(results)
PriceMultipleReturn ==
    /\ batch.kind = "price_multiple"
    /\ batch.pc = "loop"
    /\ batch.i > Len(batch.products)
    /\ batch' = [batch EXCEPT !.pc = "returned"]
    /\ OthersIdleBatch

NextBatch ==
    \/ FIAPriceMultiple
    \/ RILAPriceMultiple
    \/ PriceMultipleIteration
    \/ PriceMultipleReturn

SpecBatch == InitBatch /\ [][NextBatch]_vars

\* C24: a batch returns one row per input product, in input order; a
\* product whose pricing fails for any reason yields a row with an error,
\* and a failure never aborts the batch.
BatchNeverAborts ==
    batch.kind = "price_multiple" =>
        /\ batch.pc # "raised"
        /\ batch.pc = "returned" =>
               /\ Len(batch.results) = Len(batch.products)
               /\ \A k \in 1 .. Len(batch.products) :
                      /\ batch.results[k].product = batch.products[k]
                      /\ IsNone(batch.results[k].error) <=>
                             batch_price(batch.pricer, batch.products[k],
                                         batch.term_years, batch.premium).status
                                 = "ok"

(***************************************************************************)
(* Rejected calls                                                          *)
(*                                                                         *)
(* A client that also makes calls the program rejects: price() with        *)
(* arguments that fail its checks, on simulators built from one seed, or   *)
(* generate_ag43_scenarios with a correlation outside [-1, 1].  A          *)
(* simulator keeps, for each rejected call, the number of results it had   *)
(* returned before it.                                                     *)
(***************************************************************************)

RejectedArgs ==
    { args \in [premium : {0, 1000}, age : {-1, 97, DefaultMaxAge}, r : {4},
                sigma : {-1, 18}, max_age : {DefaultMaxAge},
                utilization_rate : {100}] : price_raises(args) }

price_rejected_after_draw(sim) ==
    [sim EXCEPT !.rejected = Append(@, Len(sim.results)),
                !.rng = NextRng(@)]

\* price() raising at its head: nothing of the simulator changes.
price_rejected(sim) == [sim EXCEPT !.rejected = Append(@, Len(sim.results))]

InitGLWBRejecting ==
    /\ scen = Idle
    /\ \E config \in SimConfigs, n_paths \in 1 .. MaxPaths, seed \in 0 .. MaxSeed :
           sims = [i \in SimIds |->
                      [gwb_config |-> config, n_paths |-> n_paths,
                       seed |-> Some(seed),
                       rng |-> default_rng(Some(seed), 0),
                       results |-> <<>>, rejected |-> <<>>]]
    /\ \E args \in SimArgs :
           /\ ~price_raises(args)
           /\ run = [kind |-> "ready", args |-> args]

InitGeneratorRejecting ==
    /\ sims = Idle
    /\ run = Idle
    /\ \E n_scenarios \in 1 .. MaxScenarios,
          projection_years \in 1 .. MaxProjectionYears :
           scen = [kind |-> "generator", n_scenarios |-> n_scenarios,
                   projection_years |-> projection_years,
                   draws |-> 0, rejected |-> 0]

InitPreconditions ==
    /\ credit = Idle
    /\ fia_call = Idle
    /\ gate_call = Idle
    /\ trk = Idle
    /\ path = Idle
    /\ solver = Idle
    /\ calc = Idle
    /\ rila_call = Idle
    /\ batch = Idle
    /\ InitGLWBRejecting \/ InitGeneratorRejecting

\* price() called with arguments it rejects, between two other calls.
PriceRejected(i) ==
    /\ run.kind = "ready"
    /\ Len(sims[i].rejected) < MaxRejectedCalls
    /\ \E args \in RejectedArgs : price_raises(args)
    /\ sims' = [sims EXCEPT ![i] = price_rejected(@)]
    /\ UNCHANGED <<run, path>>
    /\ OthersIdleSim

NextPreconditions ==
    \/ \E i \in SimIds : PriceRejected(i)
    \/ \E i \in SimIds : StartPrice(i)
    \/ StartPath
    \/ YearDeath
    \/ YearSurvive
    \/ LoopExhausted
    \/ EndPath
    \/ FinishPrice
    \/ GenerateRaises
    \/ GenerateAG43
    \/ VasicekYear
    \/ BuildScenarios

SpecPreconditions == InitPreconditions /\ [][NextPreconditions]_vars

\* A step in which simulator i rejects a call.
SimRejects(i) ==
    /\ sims # Idle
    /\ Len(sims'[i].rejected) > Len(sims[i].rejected)

\* A step in which the scenario generator rejects a call.
GeneratorRejects ==
    /\ scen # Idle
    /\ scen'.rejected > scen.rejected

\* C26: a call that violates a precondition is rejected before any
\* computation: a rejected price() simulates no path and draws no number,
\* a rejected generate_ag43_scenarios draws no number, and the later valid
\* calls return what they return without the rejected call (simulators of
\* one seed agree call by call whatever calls were rejected in between; a
\* generation starts from the generator as constructed).
RejectedBeforeComputation ==
    /\ [][\A i \in SimIds :
              SimRejects(i) =>
                  /\ sims'[i].rng = sims[i].rng
                  /\ sims'[i].results = sims[i].results
                  /\ path' = path
                  /\ run' = run]_vars
    /\ [][GeneratorRejects =>
              /\ scen'.draws = scen.draws
              /\ scen'.kind = "generator"]_vars
    /\ [](sims # Idle =>
              \A k \in 1 .. Min(Len(sims[1].results), Len(sims[2].results)) :
                  sims[1].results[k] = sims[2].results[k])
    /\ [](scen.kind \in {"vasicek", "scenarios"} =>
              scen.draws = correlated_shock_draws(scen))

ValidAfterRejectedWitness ==
    /\ sims # Idle
    /\ sims[1].rejected = << 0 >>
    /\ sims[2].rejected = << >>
    /\ Len(sims[1].results) >= 1
    /\ Len(sims[2].results) >= 1
    /\ FirstResult(1).status = "ok"
    /\ Val(FirstResult(1).result).price > 0

GeneratedAfterRejectedWitness ==
    /\ scen.kind = "scenarios"
    /\ scen.rejected >= 1

\* C29: the result of price() depends only on the constructor seed, the
\* config and the call arguments, not on earlier calls on the same
\* simulator: two calls with identical arguments on one seeded simulator
\* return identical results.
PriceIndependentOfEarlierCalls ==
    \A i \in SimIds :
        (/\ sims # Idle
         /\ ~IsNone(sims[i].seed)
         /\ Len(sims[i].results) >= 2) =>
            sims[i].results[1] = sims[i].results[2]

\* C27: with a seed set, every probe of the fair-fee bisection runs a fresh
\* simulator built from the same seed and path count, so the guarantee cost
\* is a function of the fee alone (a probe's cost is the cost of its fee
\* whatever the system entropy), and calculate_fair_fee leaves the calling
\* simulator's own generator where it was.
ProbesShareStream ==
    (solver.kind = "fair_fee" /\ ~IsNone(solver.self.seed)) =>
        /\ \A k \in 1 .. Len(solver.evaluations) :
               /\ solver.evaluations[k].n_paths = ProbePaths(solver.self)
               /\ \A entropy \in Entropy :
                      solver.evaluations[k].cost
                          = cost_at_fee(solver.self, solver.args,
                                        solver.target_cost,
                                        solver.evaluations[k].fee, entropy)
        /\ solver.self_rng = solver.rng_at_entry

ProbesShareStreamWitness ==
    /\ solver.kind = "fair_fee"
    /\ ~IsNone(solver.self.seed)
    /\ solver.pc = "returned"
    /\ Len(solver.evaluations) >= 2
    /\ solver.evaluations[1].fee # solver.evaluations[2].fee
    /\ solver.evaluations[1].cost # solver.evaluations[2].cost

\* Length n_steps + 1, first entry 1; for non-negative lapse rates the
\* curve is non-increasing and within [0, 1].
SurvivalShape ==
    LET survival == calc.survival
        n == Len(calc.lapse_rates)
    IN /\ Len(survival) = n + 1
       /\ survival[1] = 1
       /\ (\A s \in 1 .. n : calc.lapse_rates[s] >= 0) =>
              \A t \in 1 .. n :
                  /\ survival[t + 1] <= LapseUnit * survival[t]
                  /\ survival[t + 1] >= 0
                  /\ survival[t + 1] <= LapseUnit ^ t

====
